---- MODULE Spec2Model ----
(***************************************************************************)
(* Model of the project health monitor.  The metrics and pattern-detection *)
(* engine (lib/calculations) is a set of pure functions over a task list;  *)
(* each function is an operator below, and each action of a specification  *)
(* applies one of them to the input chosen by Init.  Around the engine the *)
(* module models ingestion (lib/dataProcessing), the narrative service     *)
(* (lib/claudeAPI) and the asynchronous handlers of FileUploader, App and  *)
(* ProjectManagerView.                                                     *)
(*                                                                         *)
(* JavaScript numbers are modelled as exact rationals <<n, d>> (d > 0, in  *)
(* lowest terms); dates as day numbers, with NoDate for null.              *)
(***************************************************************************)
EXTENDS Integers, Sequences, FiniteSets, TLC

VARIABLES tasks, metrics, op, ret, calls, file, uploader, app, view, runs

vars == <<tasks, metrics, op, ret, calls, file, uploader, app, view, runs>>

\* The state of the user interface: the number of calls, uploads or requests
\* made so far, the file last handed to the uploader, the state of the
\* FileUploader, App and ProjectManagerView components, and the asynchronous
\* runs (uploads, requests) that have been started.
ui == <<calls, file, uploader, app, view, runs>>

\* No file: currentFile = null.
NoFile == [ extension |-> "", oversize |-> FALSE, parses |-> FALSE, rows |-> <<>> ]

\* The state of a FileUploader as it mounts.
NoUploader == [ isProcessing |-> FALSE, currentFile |-> NoFile, progress |-> "" ]

\* The state of App as it mounts; <<>> stands for null.
NoApp == [ validation |-> <<>>, showUploader |-> TRUE, error |-> <<>> ]

\* The state of a ProjectManagerView of no project; <<>> stands for '' and null.
\* configured tells whether the build has VITE_CLAUDE_API_KEY.
NoView ==
  [ selectedProject |-> <<>>, projectRecommendations |-> <<>>,
    isLoadingInsights |-> FALSE, insightsError |-> <<>>, configured |-> FALSE ]

\* The user interface as it is before anything happens in it.
NoUi ==
  /\ calls = 0
  /\ file = NoFile
  /\ uploader = NoUploader
  /\ app = NoApp
  /\ view = NoView
  /\ runs = <<>>

(***************************************************************************)
(* Exact arithmetic for the number type.                                   *)
(***************************************************************************)
RECURSIVE GCD(_, _)
GCD(a, b) == IF b = 0 THEN a ELSE GCD(b, a % b)

Abs(n) == IF n < 0 THEN 0 - n ELSE n

Rat(n, d) == LET g == GCD(Abs(n), d) IN <<n \div g, d \div g>>

RInt(n) == <<n, 1>>

RAdd(a, b) == Rat(a[1] * b[2] + b[1] * a[2], a[2] * b[2])

RSub(a, b) == Rat(a[1] * b[2] - b[1] * a[2], a[2] * b[2])

RMul(a, b) == Rat(a[1] * b[1], a[2] * b[2])

RDivInt(a, k) == Rat(a[1], a[2] * k)

RLess(a, b) == a[1] * b[2] < b[1] * a[2]

RAbs(a) == <<Abs(a[1]), a[2]>>

RMax(a, b) == IF RLess(a, b) THEN b ELSE a

RMin(a, b) == IF RLess(b, a) THEN b ELSE a

RECURSIVE RSum(_)
RSum(s) == IF Len(s) = 0 THEN RInt(0) ELSE RAdd(Head(s), RSum(Tail(s)))

\* 0 / 0: the pair <<0, 0>> compares false with every number under RLess, as
\* NaN does under < and >.
NaN == <<0, 0>>

\* n / d for integers n >= 0 and d >= 0 of which d may be 0 only when n is.
JSDiv(n, d) == IF d = 0 THEN NaN ELSE Rat(n, d)

JSMul(a, b) == IF a[2] = 0 \/ b[2] = 0 THEN NaN ELSE RMul(a, b)

\* Math.round: the nearest integer, halves towards +infinity.
MathRound(a) == (2 * a[1] + a[2]) \div (2 * a[2])

\* Number.prototype.toFixed(1): the number of tenths printed, halves away from zero.
toFixed1(a) ==
  LET tenths == (20 * Abs(a[1]) + a[2]) \div (2 * a[2])
  IN IF a[1] < 0 THEN 0 - tenths ELSE tenths

\* Array.prototype.sort with a comparator that orders by a numeric key,
\* (a, b) => key(a) - key(b), keys[i] being the key of s[i]: stable, so element
\* i lands after every element with a smaller key and after the earlier
\* elements with the same key.
ArraySort(s, keys) ==
  LET rank(i) == Cardinality({j \in 1..Len(s) : keys[j] < keys[i]})
                 + Cardinality({j \in 1..(i - 1) : keys[j] = keys[i]}) + 1
  IN [k \in 1..Len(s) |-> s[CHOOSE i \in 1..Len(s) : rank(i) = k]]

(***************************************************************************)
(* The Task record (types): only the fields the calculations read.         *)
(***************************************************************************)
NoDate == 0 - 1

\* Assigned-resource strings of the model that match
\* /resource_|generic|tbd|unassigned|placeholder|to be determined/i
GenericNames == {"Resource_04", "TBD", "generic dev"}

genericPatternsTest(name) == name \in GenericNames

BaseTask ==
  [ functionalManager |-> "Alice", projectName |-> "Apollo",
    status |-> "Not Started",
    plannedStart |-> NoDate, actualStart |-> NoDate,
    plannedEnd |-> NoDate, actualEnd |-> NoDate,
    plannedDuration |-> 0, actualDuration |-> 0,
    assignedResource |-> "Dana", plannedBudget |-> 0, totalSpent |-> 0,
    resourceUtilisation |-> 0, projectHealthRAG |-> "Green",
    criticalPathVolatility |-> 0, criticalPathRisk |-> FALSE ]

\* All task lists of at most n tasks drawn from D.
TaskLists(D, n) == UNION {[1..k -> D] : k \in 0..n}

(***************************************************************************)
(* Per-task metric functions.  The optional manager filter is "" when the  *)
(* argument is omitted (undefined and "" take the same branch).            *)
(***************************************************************************)
\* A variant that takes a finish on the planned day as late.
onTimeEndStrict(t) ==
  IF t.plannedEnd = NoDate \/ t.actualEnd = NoDate THEN FALSE
  ELSE t.actualEnd < t.plannedEnd

onTimeEnd(t) ==
  IF t.plannedEnd = NoDate \/ t.actualEnd = NoDate THEN FALSE
  ELSE t.actualEnd <= t.plannedEnd

\* A variant that leaves tasks without both dates out of the denominator.
calculateForecastAccuracyDated(ts, manager) ==
  LET dated == SelectSeq(ts, LAMBDA t:
                 /\ manager # "" => t.functionalManager = manager
                 /\ t.status = "Completed"
                 /\ t.plannedEnd # NoDate /\ t.actualEnd # NoDate)
      onTime == Len(SelectSeq(dated, onTimeEnd))
  IN IF Len(dated) = 0 THEN RInt(0)
     ELSE RMul(Rat(onTime, Len(dated)), RInt(100))

calculateForecastAccuracy(ts, manager) ==
  LET filteredTasks ==
        IF manager # ""
        THEN SelectSeq(ts, LAMBDA t: t.functionalManager = manager /\ t.status = "Completed")
        ELSE SelectSeq(ts, LAMBDA t: t.status = "Completed")
      onTime == Len(SelectSeq(filteredTasks, onTimeEnd))
  IN IF Len(filteredTasks) = 0 THEN RInt(0)
     ELSE RMul(Rat(onTime, Len(filteredTasks)), RInt(100))

calculateDurationVariance(ts, manager) ==
  LET filteredTasks ==
        IF manager # ""
        THEN SelectSeq(ts, LAMBDA t: t.functionalManager = manager /\ t.status = "Completed")
        ELSE SelectSeq(ts, LAMBDA t: t.status = "Completed")
      validTasks == SelectSeq(filteredTasks,
                      LAMBDA t: t.plannedDuration > 0 /\ t.actualDuration > 0)
      variances ==
        [i \in 1..Len(validTasks) |->
           RMul(Rat(validTasks[i].actualDuration - validTasks[i].plannedDuration,
                    validTasks[i].plannedDuration), RInt(100))]
  IN IF Len(validTasks) = 0 THEN RInt(0)
     ELSE RDivInt(RSum(variances), Len(variances))

calculateGenericResourcePercentage(ts, manager) ==
  LET filteredTasks ==
        IF manager # ""
        THEN SelectSeq(ts, LAMBDA t: t.functionalManager = manager)
        ELSE ts
      generic == Len(SelectSeq(filteredTasks, LAMBDA t:
                   t.assignedResource # "" /\ genericPatternsTest(t.assignedResource)))
  IN IF Len(filteredTasks) = 0 THEN RInt(0)
     ELSE RMul(Rat(generic, Len(filteredTasks)), RInt(100))

maxVolatility == 10

idealCriticalPct == 20

\* A variant that takes every task with some volatility as a critical-path task.
criticalTasksByVolatility(ts) == SelectSeq(ts, LAMBDA t: t.criticalPathVolatility > 0)

criticalTasksOf(ts) == SelectSeq(ts, LAMBDA t: t.criticalPathRisk)

\* A variant without the floor at 0.
volatilityScoreUnclamped(avgVolatility) ==
  RMin(RInt(50), RMul(RSub(RInt(1), RDivInt(avgVolatility, maxVolatility)), RInt(50)))

volatilityScoreOf(avgVolatility) ==
  RMax(RInt(0), RMin(RInt(50),
       RMul(RSub(RInt(1), RDivInt(avgVolatility, maxVolatility)), RInt(50))))

concentrationScoreOf(criticalPct) ==
  RMax(RInt(0), RMin(RInt(50),
       RSub(RInt(50), RMul(RAbs(RSub(criticalPct, RInt(idealCriticalPct))), RInt(2)))))

calculateCriticalPathHealth(ts) ==
  LET criticalTasks == criticalTasksOf(ts)
      avgVolatility ==
        RDivInt(RSum([i \in 1..Len(criticalTasks) |->
                        RInt(criticalTasks[i].criticalPathVolatility)]),
                Len(criticalTasks))
      criticalPct == RMul(Rat(Len(criticalTasks), Len(ts)), RInt(100))
      volatilityScore == volatilityScoreOf(avgVolatility)
      concentrationScore == concentrationScoreOf(criticalPct)
  IN IF Len(ts) = 0 THEN 0
     ELSE IF Len(criticalTasks) = 0 THEN 100
     ELSE MathRound(RAdd(volatilityScore, concentrationScore))

calculateResourceUtilisation(ts, manager) ==
  LET filteredTasks ==
        IF manager # ""
        THEN SelectSeq(ts, LAMBDA t: t.functionalManager = manager)
        ELSE ts
      validTasks == SelectSeq(filteredTasks, LAMBDA t: t.resourceUtilisation > 0)
      totalUtilisation ==
        RSum([i \in 1..Len(validTasks) |-> RInt(validTasks[i].resourceUtilisation)])
  IN IF Len(validTasks) = 0 THEN RInt(0)
     ELSE RDivInt(totalUtilisation, Len(validTasks))

(***************************************************************************)
(* The outcome of a call: the value returned, or the exception thrown.     *)
(***************************************************************************)
NoReturn == [ threw |-> FALSE, value |-> <<>> ]

Returned(v) == [ threw |-> FALSE, value |-> v ]

Threw == [ threw |-> TRUE, value |-> "TypeError" ]

NoMetrics == [ projectName |-> "" ]

(***************************************************************************)
(* Grouping with a plain object used as a map (acc[key]).  An object's own *)
(* keys are listed by Object.entries with the canonical array indices      *)
(* first, in ascending numeric order, and then the other strings in        *)
(* insertion order.  A key that names a property inherited from            *)
(* Object.prototype reads as truthy before it was ever set, so no array is *)
(* stored and acc[key].push throws a TypeError.                            *)
(***************************************************************************)
ProtoKeys == {"constructor", "__proto__", "toString", "valueOf", "hasOwnProperty"}

\* The numeric value of a key that is a canonical array index, else -1.
ArrayIndexOf(key) ==
  CASE key = "7" -> 7
    [] key = "12" -> 12
    [] OTHER -> 0 - 1

NoGroups == [ threw |-> FALSE, entries |-> <<>> ]

\* if (!acc[key]) acc[key] = []; acc[key].push(task)
pushInto(acc, key, task) ==
  IF acc.threw THEN acc
  ELSE IF \E i \in 1..Len(acc.entries) : acc.entries[i].key = key
  THEN [acc EXCEPT !.entries =
          [i \in 1..Len(acc.entries) |->
             IF acc.entries[i].key = key
             THEN [acc.entries[i] EXCEPT !.tasks = Append(@, task)]
             ELSE acc.entries[i]]]
  ELSE IF key \in ProtoKeys THEN [acc EXCEPT !.threw = TRUE]
  ELSE [acc EXCEPT !.entries = Append(@, [key |-> key, tasks |-> <<task>>])]

ObjectEntries(entries) ==
  LET indexKeys == SelectSeq(entries, LAMBDA e: ArrayIndexOf(e.key) >= 0)
      stringKeys == SelectSeq(entries, LAMBDA e: ArrayIndexOf(e.key) < 0)
  IN ArraySort(indexKeys, [i \in 1..Len(indexKeys) |-> ArrayIndexOf(indexKeys[i].key)])
       \o stringKeys

managerKey(task) ==
  IF task.functionalManager # "" THEN task.functionalManager ELSE "Unassigned"

RECURSIVE reduceByManager(_, _)
reduceByManager(acc, ts) ==
  IF Len(ts) = 0 THEN acc
  ELSE reduceByManager(pushInto(acc, managerKey(Head(ts)), Head(ts)), Tail(ts))

tasksByManager(ts) == reduceByManager(NoGroups, ts)

projectKey(task) ==
  IF task.projectName # "" THEN task.projectName ELSE "Unnamed Project"

RECURSIVE reduceByProject(_, _)
reduceByProject(acc, ts) ==
  IF Len(ts) = 0 THEN acc
  ELSE reduceByProject(pushInto(acc, projectKey(Head(ts)), Head(ts)), Tail(ts))

tasksByProject(ts) == reduceByProject(NoGroups, ts)

CountRAG(ts, rag) == Len(SelectSeq(ts, LAMBDA t: t.projectHealthRAG = rag))

(***************************************************************************)
(* Performance score and manager aggregation.                              *)
(***************************************************************************)
weights ==
  [ forecastAccuracy |-> Rat(35, 100), durationVariance |-> Rat(25, 100),
    genericResource |-> Rat(20, 100), criticalPath |-> Rat(10, 100),
    ragStatus |-> Rat(10, 100) ]

\* A variant that scores a negative variance (early finish) as no variance.
varianceScoreSigned(ts) ==
  RMax(RInt(0), RSub(RInt(100), calculateDurationVariance(ts, "")))

\* A variant without the floor at 0.
varianceScoreUnclamped(ts) ==
  RSub(RInt(100), RAbs(calculateDurationVariance(ts, "")))

varianceScoreOf(ts) ==
  RMax(RInt(0), RSub(RInt(100), RAbs(calculateDurationVariance(ts, ""))))

\* A variant that scores the generic share itself instead of its complement.
genericScoreShare(ts) ==
  RMax(RInt(0), calculateGenericResourcePercentage(ts, ""))

genericScoreOf(ts) ==
  RMax(RInt(0), RSub(RInt(100), calculateGenericResourcePercentage(ts, "")))

calculatePerformanceScore(ts) ==
  LET forecastScore == calculateForecastAccuracy(ts, "")
      varianceScore == varianceScoreOf(ts)
      genericScore == genericScoreOf(ts)
      criticalScore == RInt(calculateCriticalPathHealth(ts))
      greenPct == RMul(Rat(CountRAG(ts, "Green"), Len(ts)), RInt(100))
      amberPct == RMul(Rat(CountRAG(ts, "Amber"), Len(ts)), RInt(100))
      ragScore == RAdd(greenPct, RMul(amberPct, Rat(1, 2)))
      score ==
        RAdd(RAdd(RAdd(RAdd(RMul(forecastScore, weights.forecastAccuracy),
                            RMul(varianceScore, weights.durationVariance)),
                       RMul(genericScore, weights.genericResource)),
                  RMul(criticalScore, weights.criticalPath)),
             RMul(ragScore, weights.ragStatus))
  IN IF Len(ts) = 0 THEN 0 ELSE MathRound(score)

onTimeStart(t) ==
  t.plannedStart # NoDate /\ t.actualStart # NoDate /\ t.actualStart <= t.plannedStart

managerMetricsOf(entry) ==
  LET managerTasks == entry.tasks
      completedTasks == SelectSeq(managerTasks, LAMBDA t: t.status = "Completed")
  IN [ manager |-> entry.key,
       totalTasks |-> Len(managerTasks),
       completedTasks |-> Len(completedTasks),
       onTimeStartCount |-> Len(SelectSeq(completedTasks, onTimeStart)),
       onTimeEndCount |-> Len(SelectSeq(completedTasks, onTimeEnd)),
       forecastAccuracy |-> calculateForecastAccuracy(managerTasks, ""),
       avgDurationVariance |-> calculateDurationVariance(managerTasks, ""),
       genericResourcePct |-> calculateGenericResourcePercentage(managerTasks, ""),
       criticalPathTasks |-> Len(SelectSeq(managerTasks, LAMBDA t: t.criticalPathRisk)),
       redRAGCount |-> CountRAG(managerTasks, "Red"),
       amberRAGCount |-> CountRAG(managerTasks, "Amber"),
       greenRAGCount |-> CountRAG(managerTasks, "Green"),
       performanceScore |-> calculatePerformanceScore(managerTasks) ]

calculateManagerMetrics(ts) ==
  IF Len(ts) = 0 THEN Returned(<<>>)
  ELSE LET grouped == tasksByManager(ts)
           entries == ObjectEntries(grouped.entries)
           managerMetrics == [i \in 1..Len(entries) |-> managerMetricsOf(entries[i])]
       IN IF grouped.threw THEN Threw
          ELSE Returned(ArraySort(managerMetrics,
                 [i \in 1..Len(managerMetrics) |-> 0 - managerMetrics[i].performanceScore]))

(***************************************************************************)
(* RAG predictor, risk identifier and project aggregation.                 *)
(***************************************************************************)
\* A variant whose forecast test is forecastAccuracy <= 50.
redBreachInclusive(m) ==
  \/ ~RLess(RInt(50), m.forecastAccuracy)
  \/ RLess(RInt(80), m.genericResourcePct)
  \/ RLess(RInt(25), m.avgDurationVariance)
  \/ RLess(RInt(40), m.criticalPathTasksPct)

redBreach(m) ==
  \/ RLess(m.forecastAccuracy, RInt(50))
  \/ RLess(RInt(80), m.genericResourcePct)
  \/ RLess(RInt(25), m.avgDurationVariance)
  \/ RLess(RInt(40), m.criticalPathTasksPct)

\* A variant whose generic-resource test is genericResourcePct > 70.
amberBreachLenient(m) ==
  \/ RLess(m.forecastAccuracy, RInt(70))
  \/ RLess(RInt(70), m.genericResourcePct)
  \/ RLess(RInt(15), m.avgDurationVariance)
  \/ RLess(RInt(30), m.criticalPathTasksPct)

amberBreach(m) ==
  \/ RLess(m.forecastAccuracy, RInt(70))
  \/ RLess(RInt(50), m.genericResourcePct)
  \/ RLess(RInt(15), m.avgDurationVariance)
  \/ RLess(RInt(30), m.criticalPathTasksPct)

\* A variant that never predicts better than Amber for a project that is Red now.
predictRAGStatusSticky(m) ==
  IF redBreach(m) THEN "Red"
  ELSE IF amberBreach(m) \/ m.ragStatus = "Red" THEN "Amber"
  ELSE "Green"

predictRAGStatus(m) ==
  IF redBreach(m) THEN "Red"
  ELSE IF amberBreach(m) THEN "Amber"
  ELSE "Green"

\* A variant that keeps the last five entries.
sliceLastFive(risks) ==
  SubSeq(risks, IF Len(risks) < 5 THEN 1 ELSE Len(risks) - 4, Len(risks))

\* risks.slice(0, 5)
sliceFirstFive(risks) == SubSeq(risks, 1, IF Len(risks) < 5 THEN Len(risks) ELSE 5)

\* A risk string is modelled by its fixed text and the number printed in it.
identifyProjectRisks(projectTasks, m) ==
  LET highVolatilityTasks == SelectSeq(projectTasks, LAMBDA t: t.criticalPathVolatility > 5)
      overBudgetTasks ==
        SelectSeq(projectTasks, LAMBDA t: 10 * t.totalSpent > 11 * t.plannedBudget)
      risks ==
        (IF RLess(m.forecastAccuracy, RInt(60))
         THEN << <<"Low forecast accuracy", toFixed1(m.forecastAccuracy)>> >> ELSE <<>>)
        \o (IF RLess(RInt(60), m.genericResourcePct)
            THEN << <<"High generic resource usage", toFixed1(m.genericResourcePct)>> >>
            ELSE <<>>)
        \o (IF RLess(RInt(20), m.avgDurationVariance)
            THEN << <<"Large duration variance", toFixed1(m.avgDurationVariance)>> >>
            ELSE <<>>)
        \o (IF RLess(RInt(35), m.criticalPathTasksPct)
            THEN << <<"Oversized critical path", toFixed1(m.criticalPathTasksPct)>> >>
            ELSE <<>>)
        \o (IF Len(highVolatilityTasks) > 0
            THEN << <<"tasks with high critical path volatility", Len(highVolatilityTasks)>> >>
            ELSE <<>>)
        \o (IF Len(overBudgetTasks) > 0
            THEN << <<"tasks over budget by >10%", Len(overBudgetTasks)>> >>
            ELSE <<>>)
  IN sliceFirstFive(risks)

\* A variant of the reduce in which the earlier key wins a tie.
majorityRAGFirstWins(ragCounts) ==
  LET first == IF ragCounts.Red >= ragCounts.Amber THEN "Red" ELSE "Amber"
  IN IF ragCounts[first] >= ragCounts.Green THEN first ELSE "Green"

\* Object.keys(ragCounts).reduce((a, b) => ragCounts[a] > ragCounts[b] ? a : b)
majorityRAG(ragCounts) ==
  LET first == IF ragCounts.Red > ragCounts.Amber THEN "Red" ELSE "Amber"
  IN IF ragCounts[first] > ragCounts.Green THEN first ELSE "Green"

projectMetricsOf(entry) ==
  LET projectTasks == entry.tasks
      completedPct ==
        RMul(Rat(Len(SelectSeq(projectTasks, LAMBDA t: t.status = "Completed")),
                 Len(projectTasks)), RInt(100))
      criticalPathTasksPct ==
        RMul(Rat(Len(SelectSeq(projectTasks, LAMBDA t: t.criticalPathRisk)),
                 Len(projectTasks)), RInt(100))
      ragCounts == [ Red |-> CountRAG(projectTasks, "Red"),
                     Amber |-> CountRAG(projectTasks, "Amber"),
                     Green |-> CountRAG(projectTasks, "Green") ]
      created ==
        [ projectName |-> entry.key,
          totalTasks |-> Len(projectTasks),
          completedPct |-> completedPct,
          forecastAccuracy |-> calculateForecastAccuracy(projectTasks, ""),
          avgDurationVariance |-> calculateDurationVariance(projectTasks, ""),
          genericResourcePct |-> calculateGenericResourcePercentage(projectTasks, ""),
          criticalPathTasksPct |-> criticalPathTasksPct,
          ragStatus |-> majorityRAG(ragCounts),
          predictedRAG |-> "Green",
          topRisks |-> <<>> ]
      predicted == [created EXCEPT !.predictedRAG = predictRAGStatus(created)]
  IN [predicted EXCEPT !.topRisks = identifyProjectRisks(projectTasks, predicted)]

calculateProjectMetrics(ts) ==
  IF Len(ts) = 0 THEN Returned(<<>>)
  ELSE LET grouped == tasksByProject(ts)
           entries == ObjectEntries(grouped.entries)
       IN IF grouped.threw THEN Threw
          ELSE Returned([i \in 1..Len(entries) |-> projectMetricsOf(entries[i])])

(***************************************************************************)
(* Behavioural pattern detector.  A pattern's description is modelled by   *)
(* the numbers printed in it; the fixed recommendation text is left out.   *)
(***************************************************************************)
\* [...new Set(names)]: the distinct names in order of first occurrence.
RECURSIVE Distinct(_)
Distinct(names) ==
  IF Len(names) = 0 THEN <<>>
  ELSE LET before == Distinct(SubSeq(names, 1, Len(names) - 1))
           last == names[Len(names)]
       IN IF \E i \in 1..Len(before) : before[i] = last THEN before
          ELSE Append(before, last)

severityOrder == [ high |-> 3, medium |-> 2, low |-> 1 ]

\* xs.map(m => m.manager)
managersOf(ms) == [i \in 1..Len(ms) |-> ms[i].manager]

isHoarder(ts, m) ==
  LET managerTasks == SelectSeq(ts, LAMBDA t: t.functionalManager = m.manager)
      avgUtil == calculateResourceUtilisation(managerTasks, "")
  IN RLess(avgUtil, RInt(60)) /\ m.totalTasks > 5

\* A variant for which either condition is enough.
isOptimistEither(m) ==
  RLess(RInt(15), m.avgDurationVariance) \/ RLess(m.forecastAccuracy, RInt(60))

\* m => m.avgDurationVariance > 15 && m.forecastAccuracy < 60
isOptimist(m) ==
  RLess(RInt(15), m.avgDurationVariance) /\ RLess(m.forecastAccuracy, RInt(60))

\* A variant that takes a volatility of exactly 5 as high.
volatileTasksFromFive(ts) == SelectSeq(ts, LAMBDA t: t.criticalPathVolatility >= 5)

\* tasks.filter(t => t.criticalPathVolatility > 5)
volatileTasksOf(ts) == SelectSeq(ts, LAMBDA t: t.criticalPathVolatility > 5)

detectBehaviouralPatterns(ts, managerMetrics) ==
  LET optimists == SelectSeq(managerMetrics, isOptimist)
      genericAbusers ==
        SelectSeq(managerMetrics, LAMBDA m: RLess(RInt(70), m.genericResourcePct))
      volatileTasks == volatileTasksOf(ts)
      highVolatility == Len(volatileTasks)
      hoarders == SelectSeq(managerMetrics, LAMBDA m: isHoarder(ts, m))
      patterns ==
        (IF Len(optimists) > 0
         THEN << [ patternType |-> "chronic_optimism",
                   severity |-> IF 2 * Len(optimists) > Len(managerMetrics)
                                THEN "high" ELSE "medium",
                   description |-> << Len(optimists),
                                      toFixed1(optimists[1].avgDurationVariance) >>,
                   affectedManagers |-> managersOf(optimists) ] >>
         ELSE <<>>)
        \o (IF Len(genericAbusers) > 0
            THEN << [ patternType |-> "generic_resource_overuse",
                      severity |-> IF 10 * Len(genericAbusers) > 3 * Len(managerMetrics)
                                   THEN "high" ELSE "medium",
                      description |-> << Len(genericAbusers),
                                         toFixed1(genericAbusers[1].genericResourcePct) >>,
                      affectedManagers |-> managersOf(genericAbusers) ] >>
            ELSE <<>>)
        \o (IF 5 * highVolatility > Len(ts)
            THEN << [ patternType |-> "critical_path_instability",
                      severity |-> IF 10 * highVolatility > 3 * Len(ts)
                                   THEN "high" ELSE "medium",
                      description |-> << highVolatility,
                                         toFixed1(RMul(Rat(highVolatility, Len(ts)),
                                                       RInt(100))) >>,
                      affectedManagers |->
                        Distinct([i \in 1..Len(volatileTasks) |->
                                    volatileTasks[i].functionalManager]) ] >>
            ELSE <<>>)
        \o (IF Len(hoarders) > 0
            THEN << [ patternType |-> "resource_hoarding",
                      severity |-> IF 10 * Len(hoarders) > 3 * Len(managerMetrics)
                                   THEN "high" ELSE "low",
                      description |-> << Len(hoarders), 60 >>,
                      affectedManagers |-> managersOf(hoarders) ] >>
            ELSE <<>>)
  IN ArraySort(patterns,
               [i \in 1..Len(patterns) |-> 0 - severityOrder[patterns[i].severity]])

(***************************************************************************)
(* Portfolio aggregation and insight generator.  An insight is modelled by *)
(* its id (the fixed parts and the manager name), type, priority, the      *)
(* numbers printed in its description and its affectedEntity.              *)
(***************************************************************************)
\* The statements after the empty-list guard.
aggregatePortfolio(ts) ==
  LET uniqueProjects == Distinct([i \in 1..Len(ts) |-> ts[i].projectName])
      ragDistribution == [ Red |-> CountRAG(ts, "Red"), Amber |-> CountRAG(ts, "Amber"),
                           Green |-> CountRAG(ts, "Green") ]
      managerMetrics == calculateManagerMetrics(ts)
  IN IF managerMetrics.threw THEN Threw
     ELSE Returned(
       [ totalProjects |-> Len(uniqueProjects),
         totalTasks |-> Len(ts),
         avgForecastAccuracy |-> calculateForecastAccuracy(ts, ""),
         genericResourcePct |-> calculateGenericResourcePercentage(ts, ""),
         criticalPathTasksPct |->
           JSMul(JSDiv(Len(SelectSeq(ts, LAMBDA t: t.criticalPathRisk)), Len(ts)), RInt(100)),
         ragDistribution |-> ragDistribution,
         managerMetrics |-> managerMetrics.value ])

\* A variant without the empty-list guard.
calculatePortfolioMetricsUnguarded(ts) == aggregatePortfolio(ts)

calculatePortfolioMetrics(ts) ==
  IF Len(ts) = 0
  THEN Returned(
         [ totalProjects |-> 0, totalTasks |-> 0, avgForecastAccuracy |-> RInt(0),
           genericResourcePct |-> RInt(0), criticalPathTasksPct |-> RInt(0),
           ragDistribution |-> [ Red |-> 0, Amber |-> 0, Green |-> 0 ],
           managerMetrics |-> <<>> ])
  ELSE aggregatePortfolio(ts)

priorityOrder == [ high |-> 3, medium |-> 2, low |-> 1 ]

\* A variant that reports only the first poor performer.
firstPoorPerformerInsight(poorPerformers) ==
  << [ id |-> <<"manager", poorPerformers[1].manager, "low-score">>,
       type |-> "warning", priority |-> "medium",
       description |-> <<poorPerformers[1].performanceScore>>,
       affectedEntity |-> poorPerformers[1].manager ] >>

\* poorPerformers.forEach(manager => insights.push(...))
poorPerformerInsights(poorPerformers) ==
  [ i \in 1..Len(poorPerformers) |->
      [ id |-> <<"manager", poorPerformers[i].manager, "low-score">>,
        type |-> "warning", priority |-> "medium",
        description |-> <<poorPerformers[i].performanceScore>>,
        affectedEntity |-> poorPerformers[i].manager ] ]

\* (ragDistribution.Red / totalRAG) * 100, divided without a check of totalRAG.
redPctOf(rag) ==
  LET totalRAG == rag.Red + rag.Amber + rag.Green
  IN JSMul(JSDiv(rag.Red, totalRAG), RInt(100))

generateInsights(ts, portfolioMetrics) ==
  LET rag == portfolioMetrics.ragDistribution
      redPct == redPctOf(rag)
      poorPerformers ==
        SelectSeq(portfolioMetrics.managerMetrics, LAMBDA m: m.performanceScore < 40)
      topPerformers ==
        SelectSeq(portfolioMetrics.managerMetrics, LAMBDA m: m.performanceScore > 80)
      insights ==
        (IF RLess(portfolioMetrics.avgForecastAccuracy, RInt(60))
         THEN << [ id |-> <<"portfolio-forecast-low">>, type |-> "danger",
                   priority |-> "high",
                   description |-> <<toFixed1(portfolioMetrics.avgForecastAccuracy)>>,
                   affectedEntity |-> "Portfolio" ] >>
         ELSE <<>>)
        \o (IF RLess(RInt(50), portfolioMetrics.genericResourcePct)
            THEN << [ id |-> <<"portfolio-generic-high">>, type |-> "warning",
                      priority |-> "high",
                      description |-> <<toFixed1(portfolioMetrics.genericResourcePct)>>,
                      affectedEntity |-> "Portfolio" ] >>
            ELSE <<>>)
        \o (IF RLess(RInt(30), redPct)
            THEN << [ id |-> <<"portfolio-rag-red">>, type |-> "danger",
                      priority |-> "high", description |-> <<toFixed1(redPct)>>,
                      affectedEntity |-> "Portfolio" ] >>
            ELSE <<>>)
        \o (IF Len(poorPerformers) > 0 THEN poorPerformerInsights(poorPerformers) ELSE <<>>)
        \o (IF Len(topPerformers) > 0
            THEN << [ id |-> <<"portfolio-top-performers">>, type |-> "success",
                      priority |-> "low", description |-> <<Len(topPerformers)>>,
                      affectedEntity |-> "Portfolio" ] >>
            ELSE <<>>)
  IN ArraySort(insights,
               [i \in 1..Len(insights) |-> 0 - priorityOrder[insights[i].priority]])

(***************************************************************************)
(* calculateForecastAccuracy on task lists that vary status and end dates. *)
(***************************************************************************)
MaxForecastTasks == 3

ForecastTasks ==
  { [BaseTask EXCEPT !.status = s, !.plannedEnd = p, !.actualEnd = a] :
      s \in {"Completed", "In Progress"}, p \in {NoDate, 5}, a \in {NoDate, 4, 6} }

InitForecast ==
  /\ tasks \in TaskLists(ForecastTasks, MaxForecastTasks)
  /\ metrics = NoMetrics
  /\ op = "none"
  /\ ret = NoReturn
  /\ NoUi

CallCalculateForecastAccuracy ==
  /\ op = "none"
  /\ op' = "calculateForecastAccuracy"
  /\ ret' = Returned(calculateForecastAccuracy(tasks, ""))
  /\ UNCHANGED <<tasks, metrics, ui>>

SpecForecast == InitForecast /\ [][CallCalculateForecastAccuracy]_vars

CompletedIdx == {i \in 1..Len(tasks) : tasks[i].status = "Completed"}

DatedIdx == {i \in CompletedIdx : tasks[i].plannedEnd # NoDate /\ tasks[i].actualEnd # NoDate}

OnTimeIdx == {i \in DatedIdx : tasks[i].actualEnd <= tasks[i].plannedEnd}

\* C1 (as amended): calculateForecastAccuracy(tasks) is 100 x (Completed tasks with
\* both dates and actualEnd <= plannedEnd) / (all Completed tasks), and 0 when no
\* task is Completed: a Completed task missing a date stays in the denominator
\* and so counts as a failure.
C1_ForecastOverAllCompleted ==
  op = "calculateForecastAccuracy" =>
    /\ ~ret.threw
    /\ IF CompletedIdx = {} THEN ret.value = RInt(0)
       ELSE ret.value[1] * Cardinality(CompletedIdx)
              = 100 * Cardinality(OnTimeIdx) * ret.value[2]

\* C1 witness: a Completed on-time task next to a Completed task without an
\* actual end date, for which the call returned 50.
C1_Witness ==
  /\ op = "calculateForecastAccuracy"
  /\ OnTimeIdx # {}
  /\ CompletedIdx \ DatedIdx # {}
  /\ ret.value = RInt(50)

\* C1 as stated: the denominator counts only the Completed tasks that have both
\* dates, so a Completed task missing a date is not counted as a failure.
C1_Original_DatedDenominator ==
  op = "calculateForecastAccuracy" =>
    IF DatedIdx = {} THEN ret.value = RInt(0)
    ELSE ret.value[1] * Cardinality(DatedIdx)
           = 100 * Cardinality(OnTimeIdx) * ret.value[2]

(***************************************************************************)
(* calculateCriticalPathHealth on task lists that vary the critical-path   *)
(* flag, the volatility and the status.                                    *)
(***************************************************************************)
MaxCriticalTasks == 3

CriticalTasks ==
  { [BaseTask EXCEPT !.criticalPathRisk = c, !.criticalPathVolatility = v, !.status = s] :
      c \in BOOLEAN, v \in {0, 4, 12}, s \in {"Completed", "Not Started"} }

InitCritical ==
  /\ tasks \in TaskLists(CriticalTasks, MaxCriticalTasks)
  /\ metrics = NoMetrics
  /\ op = "none"
  /\ ret = NoReturn
  /\ NoUi

CallCalculateCriticalPathHealth ==
  /\ op = "none"
  /\ op' = "calculateCriticalPathHealth"
  /\ ret' = Returned(calculateCriticalPathHealth(tasks))
  /\ UNCHANGED <<tasks, metrics, ui>>

SpecCritical == InitCritical /\ [][CallCalculateCriticalPathHealth]_vars

NoCriticalTask == \A i \in 1..Len(tasks) : ~tasks[i].criticalPathRisk

\* C2 (as amended): for every non-empty task list in which no task has
\* criticalPathRisk set, calculateCriticalPathHealth returns exactly 100 whatever
\* the other fields are; for the empty list it returns 0.
C2_NoCriticalTaskIsHealthy ==
  op = "calculateCriticalPathHealth" /\ NoCriticalTask =>
    /\ ~ret.threw
    /\ ret.value = IF Len(tasks) = 0 THEN 0 ELSE 100

\* C2 witness: a non-empty list without critical-path tasks, one of them with a
\* volatility above 10, scored 100.
C2_Witness ==
  /\ op = "calculateCriticalPathHealth"
  /\ Len(tasks) > 0 /\ NoCriticalTask
  /\ \E i \in 1..Len(tasks) : tasks[i].criticalPathVolatility > maxVolatility
  /\ ret.value = 100

\* C2 as stated: 100 whenever no task has criticalPathRisk set, the empty list
\* included.
C2_Original_EmptyIsHealthy ==
  op = "calculateCriticalPathHealth" /\ NoCriticalTask => ret.value = 100

(***************************************************************************)
(* calculateManagerMetrics on task lists that vary the manager name (the   *)
(* empty string, the literal "Unassigned", a numeric name and the name of  *)
(* an inherited property among them) and the RAG value.                    *)
(***************************************************************************)
MaxManagerTasks == 3

ManagerNames == {"", "Unassigned", "Alice", "7", "constructor"}

ManagerTasks ==
  { [BaseTask EXCEPT !.functionalManager = m, !.projectHealthRAG = r] :
      m \in ManagerNames, r \in {"Green", "Red"} }

InitManager ==
  /\ tasks \in TaskLists(ManagerTasks, MaxManagerTasks)
  /\ metrics = NoMetrics
  /\ op = "none"
  /\ ret = NoReturn
  /\ NoUi

CallCalculateManagerMetrics ==
  /\ op = "none"
  /\ op' = "calculateManagerMetrics"
  /\ ret' = calculateManagerMetrics(tasks)
  /\ UNCHANGED <<tasks, metrics, ui>>

SpecManager == InitManager /\ [][CallCalculateManagerMetrics]_vars

\* The name of the group a task belongs to.
GroupNameOf(i) ==
  IF tasks[i].functionalManager = "" THEN "Unassigned" ELSE tasks[i].functionalManager

GroupIdx(name) == {i \in 1..Len(tasks) : GroupNameOf(i) = name}

RECURSIVE SumTotalTasks(_)
SumTotalTasks(ms) ==
  IF Len(ms) = 0 THEN 0 ELSE Head(ms).totalTasks + SumTotalTasks(Tail(ms))

\* C6 as stated: calculateManagerMetrics partitions its input: every task is
\* counted in exactly one returned group, the one named by its functionalManager
\* ("Unassigned" when empty), the totalTasks sum to the number of tasks, and
\* there is exactly one group per distinct manager value.
C6_Original_Partition ==
  op = "calculateManagerMetrics" =>
    /\ ~ret.threw
    /\ \A i \in 1..Len(tasks) :
         Cardinality({k \in 1..Len(ret.value) : ret.value[k].manager = GroupNameOf(i)}) = 1
    /\ \A k \in 1..Len(ret.value) :
         ret.value[k].totalTasks = Cardinality(GroupIdx(ret.value[k].manager))
    /\ SumTotalTasks(ret.value) = Len(tasks)
    /\ Len(ret.value) = Cardinality({tasks[i].functionalManager : i \in 1..Len(tasks)})

\* The position at which a group's manager first occurs in the input.
FirstOccurrence(name) == CHOOSE i \in GroupIdx(name) : \A j \in GroupIdx(name) : i <= j

\* C7 as stated: the returned list is in descending performanceScore order and
\* groups with equal scores keep the order in which their managers first occur
\* in the input, whatever the manager names are.
C7_Original_SortedStable ==
  op = "calculateManagerMetrics" /\ ~ret.threw =>
    \A j, k \in 1..Len(ret.value) :
      j < k =>
        /\ ret.value[j].performanceScore >= ret.value[k].performanceScore
        /\ ret.value[j].performanceScore = ret.value[k].performanceScore
             => FirstOccurrence(ret.value[j].manager) < FirstOccurrence(ret.value[k].manager)

(***************************************************************************)
(* calculateManagerMetrics on task lists of two managers whose tasks vary  *)
(* every input of the performance score.                                   *)
(***************************************************************************)
MaxScoreTasks == 3

ScoreProfiles ==
  { [BaseTask EXCEPT !.status = "Completed", !.plannedEnd = 5, !.actualEnd = 4,
       !.plannedDuration = 4, !.actualDuration = 4],
    [BaseTask EXCEPT !.status = "Completed", !.plannedEnd = 5, !.actualEnd = 6,
       !.plannedDuration = 2, !.actualDuration = 5, !.assignedResource = "TBD",
       !.criticalPathRisk = TRUE, !.criticalPathVolatility = 4,
       !.projectHealthRAG = "Red"],
    [BaseTask EXCEPT !.status = "Completed", !.plannedEnd = 5, !.actualEnd = 5,
       !.plannedDuration = 4, !.actualDuration = 2, !.projectHealthRAG = "Amber"],
    [BaseTask EXCEPT !.status = "In Progress", !.plannedDuration = 4,
       !.assignedResource = "Resource_04", !.criticalPathRisk = TRUE,
       !.criticalPathVolatility = 12],
    [BaseTask EXCEPT !.status = "Completed", !.plannedEnd = 5,
       !.plannedDuration = 5, !.actualDuration = 6, !.criticalPathRisk = TRUE,
       !.projectHealthRAG = "Amber"],
    [BaseTask EXCEPT !.projectHealthRAG = "Red"] }

ScoreTasks ==
  { [t EXCEPT !.functionalManager = m] : t \in ScoreProfiles, m \in {"Alice", "Bob"} }

InitScore ==
  /\ tasks \in TaskLists(ScoreTasks, MaxScoreTasks)
  /\ metrics = NoMetrics
  /\ op = "none"
  /\ ret = NoReturn
  /\ NoUi

SpecScore == InitScore /\ [][CallCalculateManagerMetrics]_vars

GroupTasks(name) == SelectSeq(tasks, LAMBDA t: managerKey(t) = name)

\* 100 x the weighted sum of the claim, from a group's returned metrics.
WeightedSum100(m) ==
  LET varianceScore == RMax(RInt(0), RSub(RInt(100), RAbs(m.avgDurationVariance)))
      genericScore == RMax(RInt(0), RSub(RInt(100), m.genericResourcePct))
      health == calculateCriticalPathHealth(GroupTasks(m.manager))
      ragScore == Rat(100 * m.greenRAGCount + 50 * m.amberRAGCount, m.totalTasks)
  IN RSum(<< RMul(RInt(35), m.forecastAccuracy), RMul(RInt(25), varianceScore),
             RMul(RInt(20), genericScore), RInt(10 * health), RMul(RInt(10), ragScore) >>)

\* C10: for a non-empty group, performanceScore = round(0.35 forecastAccuracy
\* + 0.25 max(0, 100 - |durationVariance|) + 0.20 max(0, 100 - genericResourcePct)
\* + 0.10 criticalPathHealth + 0.10 ragScore), ragScore being the Green share
\* plus half the Amber share of the group's tasks, in percent.
C10_PerformanceScoreFormula ==
  op = "calculateManagerMetrics" /\ ~ret.threw =>
    \A k \in 1..Len(ret.value) :
      LET m == ret.value[k]
          s == WeightedSum100(m)
      IN /\ m.totalTasks > 0
         /\ 200 * s[2] * m.performanceScore <= 2 * s[1] + 100 * s[2]
         /\ 2 * s[1] + 100 * s[2] < 200 * s[2] * (m.performanceScore + 1)

\* C10 witness: a scored group whose tasks finished early on average, partly on
\* time, partly on generic resources, with Amber and critical-path tasks.
C10_Witness ==
  /\ op = "calculateManagerMetrics"
  /\ ~ret.threw
  /\ \E k \in 1..Len(ret.value) :
       LET m == ret.value[k]
       IN /\ m.avgDurationVariance[1] < 0
          /\ RLess(RInt(0), m.forecastAccuracy) /\ RLess(m.forecastAccuracy, RInt(100))
          /\ RLess(RInt(0), m.genericResourcePct)
          /\ m.amberRAGCount > 0 /\ m.criticalPathTasks > 0
          /\ m.performanceScore > 0

\* C11: the performanceScore of every ManagerMetrics returned by
\* calculateManagerMetrics is an integer in the range 0..100.
C11_PerformanceScoreRange ==
  op = "calculateManagerMetrics" /\ ~ret.threw =>
    \A k \in 1..Len(ret.value) : ret.value[k].performanceScore \in 0..100

\* C11 witness: two groups were scored, one at the top of the range (every
\* component perfect) and one within 3 points of the bottom (late, +150%
\* variance, generic resources, all tasks critical, Red).
C11_Witness ==
  /\ op = "calculateManagerMetrics"
  /\ ~ret.threw
  /\ \E j, k \in 1..Len(ret.value) :
       /\ ret.value[j].performanceScore = 100
       /\ ret.value[k].performanceScore <= 3
       /\ RLess(RInt(100), ret.value[k].avgDurationVariance)

(***************************************************************************)
(* calculateManagerMetrics on the tasks of one manager, all Completed on   *)
(* time, Green and off the critical path, that vary the durations (early,  *)
(* exact, late finishes) and the assigned resource (named or generic).     *)
(***************************************************************************)
MaxMonotoneTasks == 2

MonotoneTasks ==
  { [BaseTask EXCEPT !.status = "Completed", !.plannedEnd = 5, !.actualEnd = 4,
       !.plannedDuration = d[1], !.actualDuration = d[2], !.assignedResource = r] :
      d \in {<<4, 4>>, <<4, 2>>, <<2, 5>>, <<4, 5>>}, r \in {"Dana", "TBD"} }

InitMonotone ==
  /\ tasks \in TaskLists(MonotoneTasks, MaxMonotoneTasks)
  /\ metrics = NoMetrics
  /\ op = "none"
  /\ ret = NoReturn
  /\ NoUi

SpecMonotone == InitMonotone /\ [][CallCalculateManagerMetrics]_vars

\* The score inputs that a comparison holds fixed.
SameFixedInputs(a, b) ==
  /\ calculateForecastAccuracy(a, "") = calculateForecastAccuracy(b, "")
  /\ calculateCriticalPathHealth(a) = calculateCriticalPathHealth(b)
  /\ CountRAG(a, "Green") * Len(b) = CountRAG(b, "Green") * Len(a)
  /\ CountRAG(a, "Amber") * Len(b) = CountRAG(b, "Amber") * Len(a)

AbsVariance(ts) == RAbs(calculateDurationVariance(ts, ""))

GenericPct(ts) == calculateGenericResourcePercentage(ts, "")

\* C12: performanceScore is monotonically non-increasing in |durationVariance|
\* and in genericResourcePct: a group that differs from the scored one only by a
\* larger |durationVariance|, or only by a larger genericResourcePct, never has a
\* higher (rounded) score.
C12_ScoreMonotone ==
  op = "calculateManagerMetrics" /\ ~ret.threw /\ Len(tasks) > 0 =>
    \A other \in TaskLists(MonotoneTasks, MaxMonotoneTasks) :
      (/\ Len(other) > 0
       /\ SameFixedInputs(tasks, other)
       /\ \/ /\ ~RLess(AbsVariance(other), AbsVariance(tasks))
             /\ GenericPct(other) = GenericPct(tasks)
          \/ /\ ~RLess(GenericPct(other), GenericPct(tasks))
             /\ AbsVariance(other) = AbsVariance(tasks))
        => calculatePerformanceScore(other) <= ret.value[1].performanceScore

\* C12 witness: a scored group that finished early on average and is partly on
\* generic resources, next to which a group with less |variance| and the same
\* generic share, and a group with a smaller generic share and the same
\* |variance|, both score strictly higher.
C12_Witness ==
  /\ op = "calculateManagerMetrics"
  /\ ~ret.threw /\ Len(tasks) > 0
  /\ calculateDurationVariance(tasks, "")[1] < 0
  /\ \E other \in TaskLists(MonotoneTasks, MaxMonotoneTasks) :
       /\ Len(other) > 0
       /\ RLess(AbsVariance(other), AbsVariance(tasks))
       /\ GenericPct(other) = GenericPct(tasks)
       /\ calculatePerformanceScore(other) > ret.value[1].performanceScore
  /\ \E other \in TaskLists(MonotoneTasks, MaxMonotoneTasks) :
       /\ Len(other) > 0
       /\ RLess(GenericPct(other), GenericPct(tasks))
       /\ AbsVariance(other) = AbsVariance(tasks)
       /\ calculatePerformanceScore(other) > ret.value[1].performanceScore

(***************************************************************************)
(* calculateProjectMetrics on task lists that vary the project name and    *)
(* the RAG value.                                                          *)
(***************************************************************************)
MaxProjectTasks == 4

ProjectTasks ==
  { [BaseTask EXCEPT !.projectName = n, !.projectHealthRAG = r] :
      n \in {"", "Apollo"}, r \in {"Red", "Amber", "Green"} }

InitProject ==
  /\ tasks \in TaskLists(ProjectTasks, MaxProjectTasks)
  /\ metrics = NoMetrics
  /\ op = "none"
  /\ ret = NoReturn
  /\ NoUi

CallCalculateProjectMetrics ==
  /\ op = "none"
  /\ op' = "calculateProjectMetrics"
  /\ ret' = calculateProjectMetrics(tasks)
  /\ UNCHANGED <<tasks, metrics, ui>>

SpecProject == InitProject /\ [][CallCalculateProjectMetrics]_vars

\* The number of tasks of a project group that carry a RAG value.
ProjectRAGCount(name, rag) ==
  Cardinality({i \in 1..Len(tasks) :
     /\ (IF tasks[i].projectName = "" THEN "Unnamed Project" ELSE tasks[i].projectName) = name
     /\ tasks[i].projectHealthRAG = rag})

\* C3 (as amended): ragStatus is a RAG value with the highest task count in the
\* group, and a tie for the highest count goes to the value that comes later in
\* the order Red, Amber, Green: Green wins any tie it is part of, and Amber wins
\* a Red/Amber tie.
C3_RagStatusLaterWinsTies ==
  op = "calculateProjectMetrics" /\ ~ret.threw =>
    \A k \in 1..Len(ret.value) :
      LET pm == ret.value[k]
          red == ProjectRAGCount(pm.projectName, "Red")
          amber == ProjectRAGCount(pm.projectName, "Amber")
          green == ProjectRAGCount(pm.projectName, "Green")
      IN pm.ragStatus =
           IF green >= red /\ green >= amber THEN "Green"
           ELSE IF amber >= red THEN "Amber"
           ELSE "Red"

\* C3 witness: a group in which Red ties with the highest count and the status
\* returned is not Red.
C3_Witness ==
  /\ op = "calculateProjectMetrics"
  /\ ~ret.threw
  /\ \E k \in 1..Len(ret.value) :
       LET pm == ret.value[k]
           red == ProjectRAGCount(pm.projectName, "Red")
       IN /\ red >= ProjectRAGCount(pm.projectName, "Amber")
          /\ red = ProjectRAGCount(pm.projectName, "Green")
          /\ pm.ragStatus = "Green"

\* C3 as stated: ties for the highest count are resolved in the order Red,
\* Amber, Green (Red wins any tie it is part of, Amber wins an Amber/Green tie).
C3_Original_RedWinsTies ==
  op = "calculateProjectMetrics" /\ ~ret.threw =>
    \A k \in 1..Len(ret.value) :
      LET pm == ret.value[k]
          red == ProjectRAGCount(pm.projectName, "Red")
          amber == ProjectRAGCount(pm.projectName, "Amber")
          green == ProjectRAGCount(pm.projectName, "Green")
      IN pm.ragStatus =
           IF red >= amber /\ red >= green THEN "Red"
           ELSE IF amber >= green THEN "Amber"
           ELSE "Green"

(***************************************************************************)
(* detectBehaviouralPatterns(tasks, calculateManagerMetrics(tasks)) on     *)
(* task lists long enough for a group of more than 5 tasks, varying the    *)
(* manager (named or empty) and the resource utilisation.                  *)
(***************************************************************************)
MaxPatternTasks == 6

PatternTasks ==
  { [BaseTask EXCEPT !.functionalManager = m, !.resourceUtilisation = u] :
      m \in {"", "Alice"}, u \in {40, 90} }

InitPatterns ==
  /\ tasks \in TaskLists(PatternTasks, MaxPatternTasks)
  /\ metrics = NoMetrics
  /\ op = "none"
  /\ ret = NoReturn
  /\ NoUi

CallDetectBehaviouralPatterns ==
  /\ op = "none"
  /\ op' = "detectBehaviouralPatterns"
  /\ ret' = LET managerMetrics == calculateManagerMetrics(tasks)
            IN IF managerMetrics.threw THEN Threw
               ELSE Returned(detectBehaviouralPatterns(tasks, managerMetrics.value))
  /\ UNCHANGED <<tasks, metrics, ui>>

SpecPatterns == InitPatterns /\ [][CallDetectBehaviouralPatterns]_vars

\* The managers listed by the resource_hoarding pattern, if it was emitted.
ListedHoarders ==
  UNION { {ret.value[p].affectedManagers[j] :
             j \in 1..Len(ret.value[p].affectedManagers)} :
          p \in {q \in 1..Len(ret.value) : ret.value[q].patternType = "resource_hoarding"} }

\* 60 x (tasks of the group with utilisation > 0) minus their summed utilisation:
\* positive exactly when the group's mean utilisation (0 when no task reports
\* any) is below 60.
RECURSIVE UtilisationShortfall(_)
UtilisationShortfall(idx) ==
  IF idx = {} THEN 0
  ELSE LET i == CHOOSE j \in idx : TRUE
       IN (IF tasks[i].resourceUtilisation > 0 THEN 60 - tasks[i].resourceUtilisation ELSE 0)
          + UtilisationShortfall(idx \ {i})

GroupMeanBelow60(name) ==
  LET reported == {i \in GroupIdx(name) : tasks[i].resourceUtilisation > 0}
  IN reported = {} \/ UtilisationShortfall(reported) > 0

GroupNames == {GroupNameOf(i) : i \in 1..Len(tasks)}

\* C4 as stated: a manager group is listed in the resource_hoarding pattern
\* exactly when the mean utilisation of the group's own tasks is below 60 and
\* the group has more than 5 tasks, the "Unassigned" group included; the
\* severity is high when the hoarders exceed 30% of all managers, else low.
C4_Original_HoardersByOwnTasks ==
  op = "detectBehaviouralPatterns" =>
    /\ ~ret.threw
    /\ \A name \in GroupNames :
         name \in ListedHoarders
           <=> (GroupMeanBelow60(name) /\ Cardinality(GroupIdx(name)) > 5)
    /\ \A p \in 1..Len(ret.value) :
         ret.value[p].patternType = "resource_hoarding" =>
           ret.value[p].severity =
             IF 10 * Cardinality(ListedHoarders) > 3 * Cardinality(GroupNames)
             THEN "high" ELSE "low"

\* C5 as stated: no pattern is returned when every manager group has
\* durationVariance <= 15, genericResourcePct <= 70 and a mean utilisation of at
\* least 60, and at most 20% of the tasks have a volatility above 5.
C5_Original_QuietWithinThresholds ==
  op = "detectBehaviouralPatterns" /\ ~ret.threw =>
    LET managerMetrics == calculateManagerMetrics(tasks).value
        allSafe ==
          /\ \A k \in 1..Len(managerMetrics) :
               /\ ~RLess(RInt(15), managerMetrics[k].avgDurationVariance)
               /\ ~RLess(RInt(70), managerMetrics[k].genericResourcePct)
               /\ ~GroupMeanBelow60(managerMetrics[k].manager)
          /\ 5 * Cardinality({i \in 1..Len(tasks) : tasks[i].criticalPathVolatility > 5})
               <= Len(tasks)
    IN allSafe => Len(ret.value) = 0

(***************************************************************************)
(* predictRAGStatus on metrics around every threshold, with every current  *)
(* and previously predicted status.                                        *)
(***************************************************************************)
PredictInputs ==
  { [ projectName |-> "Apollo", totalTasks |-> 4, completedPct |-> RInt(50),
      forecastAccuracy |-> fa, avgDurationVariance |-> dv,
      genericResourcePct |-> gr, criticalPathTasksPct |-> cp,
      ragStatus |-> rs, predictedRAG |-> pr, topRisks |-> tr ] :
      fa \in {RInt(45), Rat(99, 2), RInt(50), RInt(69), RInt(70), RInt(100)},
      gr \in {RInt(30), RInt(50), RInt(51), RInt(80), RInt(81)},
      dv \in {RInt(0 - 30), RInt(10), RInt(15), RInt(16), RInt(25), Rat(51, 2)},
      cp \in {RInt(10), RInt(30), RInt(31), RInt(40), RInt(41)},
      rs \in {"Red", "Green"}, pr \in {"Red", "Green"},
      tr \in {<<>>, << <<"Low forecast accuracy", 450>> >>} }

InitPredict ==
  /\ tasks = <<>>
  /\ metrics \in PredictInputs
  /\ op = "none"
  /\ ret = NoReturn
  /\ NoUi

CallPredictRAGStatus ==
  /\ op = "none"
  /\ metrics # NoMetrics
  /\ op' = "predictRAGStatus"
  /\ ret' = Returned(predictRAGStatus(metrics))
  /\ UNCHANGED <<tasks, metrics, ui>>

SpecPredict == InitPredict /\ [][CallPredictRAGStatus]_vars

\* x < k and x > k for a number x and an integer k.
Below(x, k) == x[1] < k * x[2]

Above(x, k) == x[1] > k * x[2]

\* C8: predictRAGStatus returns Red iff forecastAccuracy < 50 or
\* genericResourcePct > 80 or avgDurationVariance > 25 or criticalPathTasksPct > 40;
\* otherwise Amber iff forecastAccuracy < 70 or genericResourcePct > 50 or
\* avgDurationVariance > 15 or criticalPathTasksPct > 30; otherwise Green.
C8_PredictThresholds ==
  op = "predictRAGStatus" =>
    LET red == \/ Below(metrics.forecastAccuracy, 50)
               \/ Above(metrics.genericResourcePct, 80)
               \/ Above(metrics.avgDurationVariance, 25)
               \/ Above(metrics.criticalPathTasksPct, 40)
        amber == \/ Below(metrics.forecastAccuracy, 70)
                 \/ Above(metrics.genericResourcePct, 50)
                 \/ Above(metrics.avgDurationVariance, 15)
                 \/ Above(metrics.criticalPathTasksPct, 30)
    IN /\ ~ret.threw
       /\ (ret.value = "Red") <=> red
       /\ (ret.value = "Amber") <=> (~red /\ amber)
       /\ (ret.value = "Green") <=> (~red /\ ~amber)

\* C8 witness: the metrics 45 / 30 / 10 / 10 were classified Red.
C8_Witness ==
  /\ op = "predictRAGStatus"
  /\ metrics.forecastAccuracy = RInt(45)
  /\ metrics.genericResourcePct = RInt(30)
  /\ metrics.avgDurationVariance = RInt(10)
  /\ metrics.criticalPathTasksPct = RInt(10)
  /\ ret.value = "Red"

\* C9: predictRAGStatus is total and reads only the four metric fields: it
\* returns one of Red, Amber, Green, and the value returned is the one it gives
\* for the same metrics with any other ragStatus, predictedRAG and topRisks.
C9_PredictTotalAndIndependent ==
  op = "predictRAGStatus" =>
    /\ ~ret.threw
    /\ ret.value \in {"Red", "Amber", "Green"}
    /\ \A other \in PredictInputs :
         (/\ other.forecastAccuracy = metrics.forecastAccuracy
          /\ other.genericResourcePct = metrics.genericResourcePct
          /\ other.avgDurationVariance = metrics.avgDurationVariance
          /\ other.criticalPathTasksPct = metrics.criticalPathTasksPct)
           => predictRAGStatus(other) = ret.value

\* C9 witness: metrics within every threshold, currently Red and previously
\* predicted Red with a risk listed, were classified Green.
C9_Witness ==
  /\ op = "predictRAGStatus"
  /\ metrics.ragStatus = "Red" /\ metrics.predictedRAG = "Red"
  /\ Len(metrics.topRisks) > 0
  /\ ret.value = "Green"

(***************************************************************************)
(* calculateProjectMetrics on the tasks of one project that vary every     *)
(* input of the risk identifier: on-time or late finish, named or generic  *)
(* resource, exact or overrun duration, critical-path flag, volatility and *)
(* spend against budget.                                                   *)
(***************************************************************************)
MaxRiskTasks == 3

RiskTask(late, generic, overrun, critical, volatility, spent) ==
  [BaseTask EXCEPT !.status = "Completed", !.plannedEnd = 5,
     !.actualEnd = IF late THEN 6 ELSE 4,
     !.assignedResource = IF generic THEN "TBD" ELSE "Dana",
     !.plannedDuration = IF overrun THEN 2 ELSE 4,
     !.actualDuration = IF overrun THEN 5 ELSE 4,
     !.criticalPathRisk = critical, !.criticalPathVolatility = volatility,
     !.plannedBudget = 10, !.totalSpent = spent]

RiskTasks ==
  { RiskTask(FALSE, FALSE, FALSE, FALSE, 0, 10),
    RiskTask(FALSE, FALSE, FALSE, FALSE, 5, 11),
    RiskTask(TRUE, FALSE, FALSE, FALSE, 0, 10),
    RiskTask(FALSE, TRUE, FALSE, FALSE, 0, 10),
    RiskTask(FALSE, FALSE, TRUE, FALSE, 0, 10),
    RiskTask(FALSE, FALSE, FALSE, TRUE, 0, 10),
    RiskTask(FALSE, FALSE, FALSE, FALSE, 12, 10),
    RiskTask(FALSE, FALSE, FALSE, FALSE, 0, 12),
    RiskTask(TRUE, TRUE, TRUE, TRUE, 0, 12),
    RiskTask(TRUE, TRUE, TRUE, TRUE, 12, 12) }

InitRisks ==
  /\ tasks \in TaskLists(RiskTasks, MaxRiskTasks)
  /\ metrics = NoMetrics
  /\ op = "none"
  /\ ret = NoReturn
  /\ NoUi

SpecRisks == InitRisks /\ [][CallCalculateProjectMetrics]_vars

RiskTexts ==
  << "Low forecast accuracy", "High generic resource usage", "Large duration variance",
     "Oversized critical path", "tasks with high critical path volatility",
     "tasks over budget by >10%" >>

VolatileIdx == {i \in 1..Len(tasks) : tasks[i].criticalPathVolatility > 5}

OverBudgetIdx == {i \in 1..Len(tasks) : 10 * tasks[i].totalSpent > 11 * tasks[i].plannedBudget}

\* The six conditions of the claim, in its order, for a project's metrics.
RiskHolds(pm) ==
  << Below(pm.forecastAccuracy, 60), Above(pm.genericResourcePct, 60),
     Above(pm.avgDurationVariance, 20), Above(pm.criticalPathTasksPct, 35),
     VolatileIdx # {}, OverBudgetIdx # {} >>

\* C13: identifyProjectRisks evaluates forecastAccuracy < 60, genericResourcePct
\* > 60, avgDurationVariance > 20, criticalPathTasksPct > 35, some task with
\* criticalPathVolatility > 5, some task with totalSpent > 1.1 x plannedBudget in
\* that order; each true condition contributes exactly one string, and topRisks
\* is the first 5 contributions in that order.
C13_RisksInOrderFirstFive ==
  op = "calculateProjectMetrics" /\ ~ret.threw =>
    \A k \in 1..Len(ret.value) :
      LET pm == ret.value[k]
          holds == RiskHolds(pm)
          contributed == SelectSeq(<<1, 2, 3, 4, 5, 6>>, LAMBDA c: holds[c])
          kept == IF Len(contributed) < 5 THEN Len(contributed) ELSE 5
      IN /\ Len(pm.topRisks) = kept
         /\ \A i \in 1..kept : pm.topRisks[i][1] = RiskTexts[contributed[i]]

\* C13 witness: all six conditions hold for the project and the five risks
\* returned end with the volatility risk, the over-budget risk being left out.
C13_Witness ==
  /\ op = "calculateProjectMetrics"
  /\ ~ret.threw /\ Len(ret.value) = 1
  /\ \A c \in 1..6 : RiskHolds(ret.value[1])[c]
  /\ Len(ret.value[1].topRisks) = 5
  /\ ret.value[1].topRisks[5][1] = RiskTexts[5]

\* The texts of the four risks that come from a metric threshold.
MetricRiskTexts == {RiskTexts[c] : c \in 1..4}

\* C25: for every ProjectMetrics returned by calculateProjectMetrics,
\* predictedRAG = Red implies that topRisks is not empty, and predictedRAG =
\* Green implies that topRisks holds none of the four metric-threshold risks
\* (low forecast accuracy, high generic usage, large duration variance,
\* oversized critical path).
C25_PredictedRAGAndRisks ==
  op = "calculateProjectMetrics" /\ ~ret.threw =>
    \A k \in 1..Len(ret.value) :
      LET pm == ret.value[k]
      IN /\ pm.predictedRAG = "Red" => Len(pm.topRisks) > 0
         /\ pm.predictedRAG = "Green" =>
              \A i \in 1..Len(pm.topRisks) : pm.topRisks[i][1] \notin MetricRiskTexts

\* C25 witness: a project predicted Green whose topRisks is not empty: it holds
\* the volatility and over-budget risks and no metric-threshold risk.
C25_Witness ==
  /\ op = "calculateProjectMetrics"
  /\ ~ret.threw /\ Len(ret.value) = 1
  /\ ret.value[1].predictedRAG = "Green"
  /\ Len(ret.value[1].topRisks) = 2
  /\ \A i \in 1..2 : ret.value[1].topRisks[i][1] \notin MetricRiskTexts

(***************************************************************************)
(* calculateForecastAccuracy on lists of up to ten tasks, each Completed   *)
(* on its planned day, Completed a day late, or still in progress.         *)
(***************************************************************************)
MaxScenarioTasks == 10

ScenarioTasks ==
  { [BaseTask EXCEPT !.status = "Completed", !.plannedEnd = 5, !.actualEnd = 5],
    [BaseTask EXCEPT !.status = "Completed", !.plannedEnd = 5, !.actualEnd = 6],
    [BaseTask EXCEPT !.status = "In Progress", !.plannedEnd = 5] }

InitScenario ==
  /\ tasks \in TaskLists(ScenarioTasks, MaxScenarioTasks)
  /\ metrics = NoMetrics
  /\ op = "none"
  /\ ret = NoReturn
  /\ NoUi

SpecScenario == InitScenario /\ [][CallCalculateForecastAccuracy]_vars

LateIdx == {i \in DatedIdx : tasks[i].actualEnd > tasks[i].plannedEnd}

\* C14: calculateForecastAccuracy returns a value in [0, 100]; exactly 0 for an
\* empty task set and for a set with no Completed task; 100 for 10 Completed
\* tasks all having actualEnd <= plannedEnd, and 70 once 3 of the 10 have
\* actualEnd > plannedEnd.
C14_ForecastRangeAndScenario ==
  op = "calculateForecastAccuracy" =>
    /\ ~ret.threw
    /\ ~RLess(ret.value, RInt(0)) /\ ~RLess(RInt(100), ret.value)
    /\ CompletedIdx = {} => ret.value = RInt(0)
    /\ (Len(tasks) = 10 /\ Cardinality(CompletedIdx) = 10 /\ Cardinality(OnTimeIdx) = 10)
         => ret.value = RInt(100)
    /\ (Len(tasks) = 10 /\ Cardinality(CompletedIdx) = 10 /\ Cardinality(OnTimeIdx) = 7
          /\ Cardinality(LateIdx) = 3)
         => ret.value = RInt(70)

\* C14 witness: 10 Completed tasks of which exactly 3 finished after their
\* planned end, for which the call returned 70.
C14_Witness ==
  /\ op = "calculateForecastAccuracy"
  /\ Len(tasks) = 10 /\ Cardinality(CompletedIdx) = 10
  /\ Cardinality(LateIdx) = 3
  /\ ret.value = RInt(70)

(***************************************************************************)
(* calculateCriticalPathHealth on lists long enough for a critical-path    *)
(* share of 20% and below, varying the flag and the volatility.            *)
(***************************************************************************)
MaxHealthTasks == 6

HealthTasks ==
  { [BaseTask EXCEPT !.criticalPathRisk = FALSE, !.criticalPathVolatility = 0],
    [BaseTask EXCEPT !.criticalPathRisk = FALSE, !.criticalPathVolatility = 12],
    [BaseTask EXCEPT !.criticalPathRisk = TRUE, !.criticalPathVolatility = 0],
    [BaseTask EXCEPT !.criticalPathRisk = TRUE, !.criticalPathVolatility = 4],
    [BaseTask EXCEPT !.criticalPathRisk = TRUE, !.criticalPathVolatility = 12] }

InitHealth ==
  /\ tasks \in TaskLists(HealthTasks, MaxHealthTasks)
  /\ metrics = NoMetrics
  /\ op = "none"
  /\ ret = NoReturn
  /\ NoUi

SpecHealth == InitHealth /\ [][CallCalculateCriticalPathHealth]_vars

CriticalIdx == {i \in 1..Len(tasks) : tasks[i].criticalPathRisk}

RECURSIVE SumVolatility(_)
SumVolatility(idx) ==
  IF idx = {} THEN 0
  ELSE LET i == CHOOSE j \in idx : TRUE
       IN tasks[i].criticalPathVolatility + SumVolatility(idx \ {i})

\* clamp(0, 50, x)
Clamp50(x) == IF RLess(x, RInt(0)) THEN RInt(0) ELSE IF RLess(RInt(50), x) THEN RInt(50) ELSE x

\* V and C of the claim, from the critical tasks' summed volatility, their
\* number and the number of tasks.
ClaimV(sumVolatility, critical) ==
  Clamp50(RMul(RSub(RInt(1), Rat(sumVolatility, 10 * critical)), RInt(50)))

ClaimC(critical, total) ==
  Clamp50(RSub(RInt(50), RMul(RInt(2), RAbs(RSub(Rat(100 * critical, total), RInt(20))))))

\* C15: with at least one critical-path task, calculateCriticalPathHealth
\* returns round(V + C), V = clamp(0, 50, (1 - avgVolatility/10) x 50) over the
\* critical tasks and C = clamp(0, 50, 50 - 2 x |criticalPathPercentage - 20|);
\* the result is an integer in 0..100, V is 0 whenever avgVolatility >= 10, and
\* C is 50 only at a 20% critical-path share.
C15_CriticalPathHealthFormula ==
  op = "calculateCriticalPathHealth" /\ CriticalIdx # {} =>
    LET critical == Cardinality(CriticalIdx)
        sumVolatility == SumVolatility(CriticalIdx)
        sum == RAdd(ClaimV(sumVolatility, critical), ClaimC(critical, Len(tasks)))
    IN /\ ~ret.threw
       /\ ret.value \in 0..100
       /\ 2 * sum[2] * ret.value <= 2 * sum[1] + sum[2]
       /\ 2 * sum[1] + sum[2] < 2 * sum[2] * (ret.value + 1)
       /\ sumVolatility >= 10 * critical
            => volatilityScoreOf(Rat(sumVolatility, critical)) = RInt(0)
       /\ concentrationScoreOf(Rat(100 * critical, Len(tasks))) = RInt(50)
            => 5 * critical = Len(tasks)

\* C15 witness: one critical task of volatility 12 among five tasks (a 20%
\* share), scored 0 + 50.
C15_Witness ==
  /\ op = "calculateCriticalPathHealth"
  /\ Len(tasks) = 5 /\ Cardinality(CriticalIdx) = 1
  /\ SumVolatility(CriticalIdx) = 12
  /\ ret.value = 50

(***************************************************************************)
(* detectBehaviouralPatterns(tasks, calculateManagerMetrics(tasks)) on     *)
(* task lists of two managers that vary the volatility around 5.           *)
(***************************************************************************)
MaxInstabilityTasks == 5

InstabilityTasks ==
  { [BaseTask EXCEPT !.functionalManager = m, !.criticalPathVolatility = v] :
      m \in {"Alice", "Bob"}, v \in {0, 5, 6} }

InitInstability ==
  /\ tasks \in TaskLists(InstabilityTasks, MaxInstabilityTasks)
  /\ metrics = NoMetrics
  /\ op = "none"
  /\ ret = NoReturn
  /\ NoUi

SpecInstability == InitInstability /\ [][CallDetectBehaviouralPatterns]_vars

\* The positions in the returned list of the patterns of a type.
PatternIdx(type) == {p \in 1..Len(ret.value) : ret.value[p].patternType = type}

\* C16: the critical_path_instability pattern is emitted exactly when the tasks
\* with criticalPathVolatility > 5 are strictly more than 20% of all tasks (so
\* never for an empty list), once; its severity is high when they are more than
\* 30% of all tasks, else medium.
C16_InstabilityThresholds ==
  op = "detectBehaviouralPatterns" /\ ~ret.threw =>
    LET highVolatility == Cardinality(VolatileIdx)
    IN /\ Cardinality(PatternIdx("critical_path_instability"))
            = IF 5 * highVolatility > Len(tasks) THEN 1 ELSE 0
       /\ \A p \in PatternIdx("critical_path_instability") :
            ret.value[p].severity =
              IF 10 * highVolatility > 3 * Len(tasks) THEN "high" ELSE "medium"

\* C16 witness: one task in four (25%) has a volatility above 5 and another has
\* exactly 5; the pattern was emitted with severity medium.
C16_Witness ==
  /\ op = "detectBehaviouralPatterns"
  /\ ~ret.threw
  /\ Len(tasks) = 4 /\ Cardinality(VolatileIdx) = 1
  /\ \E i \in 1..Len(tasks) : tasks[i].criticalPathVolatility = 5
  /\ \E p \in PatternIdx("critical_path_instability") : ret.value[p].severity = "medium"

(***************************************************************************)
(* detectBehaviouralPatterns(tasks, calculateManagerMetrics(tasks)) on     *)
(* Completed tasks of two managers: late and overrun (on a generic         *)
(* resource, volatile), on time and exact, late only, overrun only, and    *)
(* late with a variance of exactly 15%.                                    *)
(***************************************************************************)
MaxOptimismTasks == 3

OptimismProfiles ==
  { [BaseTask EXCEPT !.status = "Completed", !.plannedEnd = 5, !.actualEnd = 6,
       !.plannedDuration = 2, !.actualDuration = 5, !.assignedResource = "TBD",
       !.criticalPathVolatility = 12],
    [BaseTask EXCEPT !.status = "Completed", !.plannedEnd = 5, !.actualEnd = 4,
       !.plannedDuration = 4, !.actualDuration = 4],
    [BaseTask EXCEPT !.status = "Completed", !.plannedEnd = 5, !.actualEnd = 6,
       !.plannedDuration = 4, !.actualDuration = 4],
    [BaseTask EXCEPT !.status = "Completed", !.plannedEnd = 5, !.actualEnd = 4,
       !.plannedDuration = 2, !.actualDuration = 5],
    [BaseTask EXCEPT !.status = "Completed", !.plannedEnd = 5, !.actualEnd = 6,
       !.plannedDuration = 20, !.actualDuration = 23] }

OptimismTasks ==
  { [t EXCEPT !.functionalManager = m] : t \in OptimismProfiles, m \in {"Alice", "Bob"} }

InitOptimism ==
  /\ tasks \in TaskLists(OptimismTasks, MaxOptimismTasks)
  /\ metrics = NoMetrics
  /\ op = "none"
  /\ ret = NoReturn
  /\ NoUi

SpecOptimism == InitOptimism /\ [][CallDetectBehaviouralPatterns]_vars

\* The managers whose metrics have avgDurationVariance > 15 and forecastAccuracy < 60.
OptimistNames ==
  LET managerMetrics == calculateManagerMetrics(tasks).value
  IN { managerMetrics[k].manager :
         k \in {j \in 1..Len(managerMetrics) :
                  /\ Above(managerMetrics[j].avgDurationVariance, 15)
                  /\ Below(managerMetrics[j].forecastAccuracy, 60)} }

PatternTypes ==
  {"chronic_optimism", "generic_resource_overuse", "critical_path_instability",
   "resource_hoarding"}

\* C17: the chronic_optimism pattern is emitted exactly when at least one manager
\* has avgDurationVariance > 15 and forecastAccuracy < 60; its affectedManagers
\* are exactly those managers, and its severity is high when they number more
\* than 50% of all managers, else medium.  Each of the four rules emits at most
\* one pattern per invocation.
C17_OptimismPattern ==
  op = "detectBehaviouralPatterns" /\ ~ret.threw =>
    /\ Cardinality(PatternIdx("chronic_optimism")) = IF OptimistNames # {} THEN 1 ELSE 0
    /\ \A p \in PatternIdx("chronic_optimism") :
         LET affected == ret.value[p].affectedManagers
         IN /\ {affected[i] : i \in 1..Len(affected)} = OptimistNames
            /\ Len(affected) = Cardinality(OptimistNames)
            /\ ret.value[p].severity =
                 IF 2 * Cardinality(OptimistNames) > Len(calculateManagerMetrics(tasks).value)
                 THEN "high" ELSE "medium"
    /\ \A type \in PatternTypes : Cardinality(PatternIdx(type)) <= 1
    /\ \A p \in 1..Len(ret.value) : ret.value[p].patternType \in PatternTypes

\* C17 witness: of two managers one is late without an overrun and the other is
\* late with an overrun; the pattern lists only the second, with severity medium.
C17_Witness ==
  /\ op = "detectBehaviouralPatterns"
  /\ ~ret.threw
  /\ Len(calculateManagerMetrics(tasks).value) = 2
  /\ \E k \in 1..2 :
       LET m == calculateManagerMetrics(tasks).value[k]
       IN m.forecastAccuracy = RInt(0) /\ m.avgDurationVariance = RInt(0)
  /\ \E p \in PatternIdx("chronic_optimism") :
       /\ Len(ret.value[p].affectedManagers) = 1
       /\ ret.value[p].severity = "medium"

(***************************************************************************)
(* generateInsights(tasks, calculatePortfolioMetrics(tasks)) on the tasks  *)
(* of two managers: flawless (Completed on time, Green), failing (late,    *)
(* overrun, generic, critical and volatile, Red) or not started (Amber).   *)
(***************************************************************************)
MaxInsightTasks == 3

InsightProfiles ==
  { [BaseTask EXCEPT !.status = "Completed", !.plannedEnd = 5, !.actualEnd = 4,
       !.plannedDuration = 4, !.actualDuration = 4],
    [BaseTask EXCEPT !.status = "Completed", !.plannedEnd = 5, !.actualEnd = 6,
       !.plannedDuration = 2, !.actualDuration = 5, !.assignedResource = "TBD",
       !.criticalPathRisk = TRUE, !.criticalPathVolatility = 12,
       !.projectHealthRAG = "Red"],
    [BaseTask EXCEPT !.projectHealthRAG = "Amber"] }

InsightTasks ==
  { [t EXCEPT !.functionalManager = m] : t \in InsightProfiles, m \in {"Alice", "Bob"} }

InitInsights ==
  /\ tasks \in TaskLists(InsightTasks, MaxInsightTasks)
  /\ metrics = NoMetrics
  /\ op = "none"
  /\ ret = NoReturn
  /\ NoUi

CallGenerateInsights ==
  /\ op = "none"
  /\ op' = "generateInsights"
  /\ ret' = LET portfolioMetrics == calculatePortfolioMetrics(tasks)
            IN IF portfolioMetrics.threw THEN Threw
               ELSE Returned(generateInsights(tasks, portfolioMetrics.value))
  /\ UNCHANGED <<tasks, metrics, ui>>

SpecInsights == InitInsights /\ [][CallGenerateInsights]_vars

\* The positions in the returned list of the insights with a type and priority.
InsightIdx(type, priority) ==
  {i \in 1..Len(ret.value) : ret.value[i].type = type /\ ret.value[i].priority = priority}

\* The number of returned insights whose id starts with a fixed part.
InsightCount(idHead) == Cardinality({i \in 1..Len(ret.value) : ret.value[i].id[1] = idHead})

Holds01(condition) == IF condition THEN 1 ELSE 0

\* C18: generateInsights emits one danger/high insight iff avgForecastAccuracy
\* < 60, one warning/high insight iff genericResourcePct > 50, one danger/high
\* insight iff the Red share of the RAG-tagged tasks is above 30%, exactly one
\* warning/medium insight for each manager with performanceScore < 40, one
\* success/low insight iff some manager has performanceScore > 80, and nothing
\* else; the list is ordered by priority (high, medium, low), ties in emission
\* order.
C18_InsightRules ==
  op = "generateInsights" /\ ~ret.threw =>
    LET pm == calculatePortfolioMetrics(tasks).value
        rag == pm.ragDistribution
        totalRAG == rag.Red + rag.Amber + rag.Green
        managerMetrics == pm.managerMetrics
        poor == SelectSeq(managersOf(managerMetrics), LAMBDA name:
                  \E k \in 1..Len(managerMetrics) :
                    managerMetrics[k].manager = name /\ managerMetrics[k].performanceScore < 40)
        top == {k \in 1..Len(managerMetrics) : managerMetrics[k].performanceScore > 80}
        forecastLow == Holds01(Below(pm.avgForecastAccuracy, 60))
        genericHigh == Holds01(Above(pm.genericResourcePct, 50))
        redHigh == Holds01(totalRAG > 0 /\ 10 * rag.Red > 3 * totalRAG)
        high == forecastLow + genericHigh + redHigh
        ids == [i \in 1..Len(ret.value) |-> ret.value[i].id[1]]
    IN /\ InsightCount("portfolio-forecast-low") = forecastLow
       /\ InsightCount("portfolio-generic-high") = genericHigh
       /\ InsightCount("portfolio-rag-red") = redHigh
       /\ InsightCount("manager") = Len(poor)
       /\ InsightCount("portfolio-top-performers") = Holds01(top # {})
       /\ Len(ret.value) = high + Len(poor) + Holds01(top # {})
       /\ \A i \in 1..Len(ret.value) :
            LET insight == ret.value[i]
            IN CASE insight.id[1] \in {"portfolio-forecast-low", "portfolio-rag-red"} ->
                      insight.type = "danger" /\ insight.priority = "high"
                 [] insight.id[1] = "portfolio-generic-high" ->
                      insight.type = "warning" /\ insight.priority = "high"
                 [] insight.id[1] = "manager" ->
                      insight.type = "warning" /\ insight.priority = "medium"
                 [] insight.id[1] = "portfolio-top-performers" ->
                      insight.type = "success" /\ insight.priority = "low"
                 [] OTHER -> FALSE
       /\ \A i, j \in 1..Len(ret.value) :
            i < j => priorityOrder[ret.value[i].priority] >= priorityOrder[ret.value[j].priority]
       /\ SubSeq(ids, 1, high)
            = SelectSeq(<<"portfolio-forecast-low", "portfolio-generic-high", "portfolio-rag-red">>,
                        LAMBDA id: InsightCount(id) = 1)
       /\ [i \in 1..Len(poor) |-> ret.value[high + i].affectedEntity] = poor

\* C18 witness: a portfolio with a low forecast accuracy, a generic share above
\* 50%, a Red share above 30%, a manager scoring below 40 and another above 80:
\* three high insights, then the manager's, then the success story.
C18_Witness ==
  /\ op = "generateInsights"
  /\ ~ret.threw
  /\ Len(ret.value) = 5
  /\ ret.value[1].id = <<"portfolio-forecast-low">>
  /\ ret.value[3].id = <<"portfolio-rag-red">>
  /\ ret.value[4].priority = "medium"
  /\ ret.value[5].type = "success"

\* C21 as stated: no core function ever divides by zero, generateInsights
\* applied to calculatePortfolioMetrics of an empty task list included: the Red
\* share it computes is a number, never the NaN of 0 / 0.
C21_Original_NoDivisionByZero ==
  op = "generateInsights" /\ ~ret.threw =>
    redPctOf(calculatePortfolioMetrics(tasks).value.ragDistribution) # NaN

(***************************************************************************)
(* calculatePortfolioMetrics on task lists, the empty one among them, that *)
(* vary the project name, the RAG value and the critical-path flag.        *)
(***************************************************************************)
MaxPortfolioTasks == 3

PortfolioTasks ==
  { [BaseTask EXCEPT !.projectName = n, !.projectHealthRAG = r, !.criticalPathRisk = c] :
      n \in {"", "Apollo"}, r \in {"Red", "Green"}, c \in BOOLEAN }

InitPortfolio ==
  /\ tasks \in TaskLists(PortfolioTasks, MaxPortfolioTasks)
  /\ metrics = NoMetrics
  /\ op = "none"
  /\ ret = NoReturn
  /\ NoUi

CallCalculatePortfolioMetrics ==
  /\ op = "none"
  /\ op' = "calculatePortfolioMetrics"
  /\ ret' = calculatePortfolioMetrics(tasks)
  /\ UNCHANGED <<tasks, metrics, ui>>

SpecPortfolio == InitPortfolio /\ [][CallCalculatePortfolioMetrics]_vars

\* C19: calculatePortfolioMetrics on an empty task list returns totalProjects = 0,
\* totalTasks = 0, every percentage field 0, a RAG distribution of Red = Amber =
\* Green = 0 and an empty manager list, without raising an exception.
C19_EmptyPortfolio ==
  op = "calculatePortfolioMetrics" /\ Len(tasks) = 0 =>
    /\ ~ret.threw
    /\ ret.value.totalProjects = 0 /\ ret.value.totalTasks = 0
    /\ ret.value.avgForecastAccuracy = RInt(0)
    /\ ret.value.genericResourcePct = RInt(0)
    /\ ret.value.criticalPathTasksPct = RInt(0)
    /\ ret.value.ragDistribution = [ Red |-> 0, Amber |-> 0, Green |-> 0 ]
    /\ ret.value.managerMetrics = <<>>

\* C19 witness: the call returned for the empty task list.
C19_Witness ==
  /\ op = "calculatePortfolioMetrics"
  /\ tasks = <<>>
  /\ ~ret.threw
  /\ ret.value.totalTasks = 0

(***************************************************************************)
(* Every core function on task lists with all-zero numerics and all-null   *)
(* dates that vary the manager and project names (a plain name, the empty  *)
(* string, the name of an inherited property), and predictRAGStatus on a   *)
(* project's metrics.                                                      *)
(***************************************************************************)
MaxTotalityTasks == 2

TotalityTasks ==
  { [BaseTask EXCEPT !.functionalManager = m, !.projectName = n] :
      m \in {"Alice", "", "constructor"}, n \in {"Apollo", "", "toString"} }

TotalityMetrics ==
  { m \in PredictInputs :
      /\ m.forecastAccuracy \in {RInt(45), RInt(100)}
      /\ m.genericResourcePct = RInt(30)
      /\ m.avgDurationVariance = RInt(10)
      /\ m.criticalPathTasksPct = RInt(10)
      /\ m.ragStatus = "Green" /\ m.predictedRAG = "Green" /\ m.topRisks = <<>> }

InitTotality ==
  /\ tasks \in TaskLists(TotalityTasks, MaxTotalityTasks)
  /\ metrics \in TotalityMetrics
  /\ op = "none"
  /\ ret = NoReturn
  /\ NoUi

CallCalculateDurationVariance ==
  /\ op = "none"
  /\ op' = "calculateDurationVariance"
  /\ ret' = Returned(calculateDurationVariance(tasks, ""))
  /\ UNCHANGED <<tasks, metrics, ui>>

CallCalculateGenericResourcePercentage ==
  /\ op = "none"
  /\ op' = "calculateGenericResourcePercentage"
  /\ ret' = Returned(calculateGenericResourcePercentage(tasks, ""))
  /\ UNCHANGED <<tasks, metrics, ui>>

CallCalculateResourceUtilisation ==
  /\ op = "none"
  /\ op' = "calculateResourceUtilisation"
  /\ ret' = Returned(calculateResourceUtilisation(tasks, ""))
  /\ UNCHANGED <<tasks, metrics, ui>>

NextTotality ==
  \/ CallCalculateForecastAccuracy
  \/ CallCalculateDurationVariance
  \/ CallCalculateGenericResourcePercentage
  \/ CallCalculateCriticalPathHealth
  \/ CallCalculateResourceUtilisation
  \/ CallCalculateManagerMetrics
  \/ CallCalculateProjectMetrics
  \/ CallCalculatePortfolioMetrics
  \/ CallPredictRAGStatus
  \/ CallDetectBehaviouralPatterns
  \/ CallGenerateInsights

SpecTotality == InitTotality /\ [][NextTotality]_vars

\* C20 as stated: every core function is total: for every task list in the
\* declared domain, empty lists, all-zero numerics, all-null dates and any
\* manager or project name included, the call returns a value and raises no
\* exception.
C20_Original_Total == op # "none" => ~ret.threw

(***************************************************************************)
(* Sequences of calls of the five calculation functions on one task list   *)
(* and on the portfolio metrics computed from it.  metrics is the          *)
(* PortfolioMetrics the caller holds; each call leaves in tasks and        *)
(* metrics what its in-place operations leave in its arguments.            *)
(***************************************************************************)
MaxFrameTasks == 2

MaxCalls == 3

FrameTasks ==
  { [t EXCEPT !.projectName = IF t.functionalManager = "Alice" THEN "Apollo" ELSE "Gemini"] :
      t \in InsightTasks }

InitFrame ==
  /\ tasks \in TaskLists(FrameTasks, MaxFrameTasks)
  /\ metrics = calculatePortfolioMetrics(tasks).value
  /\ op = "none"
  /\ ret = NoReturn
  /\ NoUi

\* The arguments as a call leaves them.
Inputs(ts, portfolioMetrics) == [ tasks |-> ts, metrics |-> portfolioMetrics ]

\* A variant of generateInsights that reverses the manager list it is given to
\* reach the lowest scores first.
inputsAfterReversingManagers(ts, portfolioMetrics) ==
  LET ms == portfolioMetrics.managerMetrics
  IN Inputs(ts, [portfolioMetrics EXCEPT
                   !.managerMetrics = [i \in 1..Len(ms) |-> ms[Len(ms) + 1 - i]]])

\* calculateManagerMetrics: reduce and push fill a new accumulator, map builds
\* a new array, and sort is applied to that array.
inputsAfterCalculateManagerMetrics(ts, portfolioMetrics) == Inputs(ts, portfolioMetrics)

\* calculateProjectMetrics: reduce and push fill a new accumulator; predictedRAG
\* and topRisks are assigned on the object literal built in map.
inputsAfterCalculateProjectMetrics(ts, portfolioMetrics) == Inputs(ts, portfolioMetrics)

\* calculatePortfolioMetrics: map, filter and Set over tasks, and the result of
\* calculateManagerMetrics.
inputsAfterCalculatePortfolioMetrics(ts, portfolioMetrics) == Inputs(ts, portfolioMetrics)

\* detectBehaviouralPatterns: filter and map over both arguments; push and sort
\* are applied to the local patterns array.
inputsAfterDetectBehaviouralPatterns(ts, portfolioMetrics) == Inputs(ts, portfolioMetrics)

\* generateInsights: filter over portfolioMetrics.managerMetrics; push and sort
\* are applied to the local insights array.
inputsAfterGenerateInsights(ts, portfolioMetrics) == Inputs(ts, portfolioMetrics)

AgainCalculateManagerMetrics ==
  /\ calls < MaxCalls
  /\ calls' = calls + 1
  /\ op' = "calculateManagerMetrics"
  /\ ret' = calculateManagerMetrics(tasks)
  /\ tasks' = inputsAfterCalculateManagerMetrics(tasks, metrics).tasks
  /\ metrics' = inputsAfterCalculateManagerMetrics(tasks, metrics).metrics
  /\ UNCHANGED <<file, uploader, app, view, runs>>

AgainCalculateProjectMetrics ==
  /\ calls < MaxCalls
  /\ calls' = calls + 1
  /\ op' = "calculateProjectMetrics"
  /\ ret' = calculateProjectMetrics(tasks)
  /\ tasks' = inputsAfterCalculateProjectMetrics(tasks, metrics).tasks
  /\ metrics' = inputsAfterCalculateProjectMetrics(tasks, metrics).metrics
  /\ UNCHANGED <<file, uploader, app, view, runs>>

AgainCalculatePortfolioMetrics ==
  /\ calls < MaxCalls
  /\ calls' = calls + 1
  /\ op' = "calculatePortfolioMetrics"
  /\ ret' = calculatePortfolioMetrics(tasks)
  /\ tasks' = inputsAfterCalculatePortfolioMetrics(tasks, metrics).tasks
  /\ metrics' = inputsAfterCalculatePortfolioMetrics(tasks, metrics).metrics
  /\ UNCHANGED <<file, uploader, app, view, runs>>

AgainDetectBehaviouralPatterns ==
  /\ calls < MaxCalls
  /\ calls' = calls + 1
  /\ op' = "detectBehaviouralPatterns"
  /\ ret' = Returned(detectBehaviouralPatterns(tasks, metrics.managerMetrics))
  /\ tasks' = inputsAfterDetectBehaviouralPatterns(tasks, metrics).tasks
  /\ metrics' = inputsAfterDetectBehaviouralPatterns(tasks, metrics).metrics
  /\ UNCHANGED <<file, uploader, app, view, runs>>

AgainGenerateInsights ==
  /\ calls < MaxCalls
  /\ calls' = calls + 1
  /\ op' = "generateInsights"
  /\ ret' = Returned(generateInsights(tasks, metrics))
  /\ tasks' = inputsAfterGenerateInsights(tasks, metrics).tasks
  /\ metrics' = inputsAfterGenerateInsights(tasks, metrics).metrics
  /\ UNCHANGED <<file, uploader, app, view, runs>>

NextFrame ==
  \/ AgainCalculateManagerMetrics
  \/ AgainCalculateProjectMetrics
  \/ AgainCalculatePortfolioMetrics
  \/ AgainDetectBehaviouralPatterns
  \/ AgainGenerateInsights

SpecFrame == InitFrame /\ [][NextFrame]_vars

MaxNarrativeTasks == 3

InitNarrative ==
  /\ tasks \in TaskLists(FrameTasks, MaxNarrativeTasks)
  /\ metrics = calculatePortfolioMetrics(tasks).value
  /\ op = "none"
  /\ ret = NoReturn
  /\ NoUi

\* The promise is rejected with an Error.
Rejected == [ threw |-> TRUE, value |-> "Error" ]

\* The outcome of anthropic.messages.create for a request.
MessageOutcomes(request) == { Returned(request), Rejected }

\* portfolioMetrics after generateResourceInsights has built its prompt:
\* managerMetrics.sort((a, b) => b.totalTasks - a.totalTasks) sorts the array
\* of the object passed in; filter, slice and the second sort work on copies.
metricsAfterResourcePrompt(portfolioMetrics) ==
  LET ms == portfolioMetrics.managerMetrics
  IN [portfolioMetrics EXCEPT
        !.managerMetrics = ArraySort(ms, [i \in 1..Len(ms) |-> 0 - ms[i].totalTasks])]

\* portfolioMetrics after generateExecutiveSummary has built its prompt:
\* slice(0, 3) and slice(-3) copy, reverse is applied to the copy.
metricsAfterSummaryPrompt(portfolioMetrics) == portfolioMetrics

\* portfolioMetrics after identifyBehavioralPatterns has built its prompt:
\* filter, map and reduce only.
metricsAfterPatternsPrompt(portfolioMetrics) == portfolioMetrics

CallGenerateExecutiveSummary ==
  /\ op = "none"
  /\ op' = "generateExecutiveSummary"
  /\ \E configured \in BOOLEAN :
       IF ~configured
       THEN ret' = Rejected /\ metrics' = metrics
       ELSE /\ metrics' = metricsAfterSummaryPrompt(metrics)
            /\ ret' \in MessageOutcomes(<<"executive summary">>)
  /\ UNCHANGED <<tasks, ui>>

CallGenerateManagerInsights ==
  /\ op = "none"
  /\ op' = "generateManagerInsights"
  /\ \E configured \in BOOLEAN, i \in 1..Len(metrics.managerMetrics) :
       IF ~configured
       THEN ret' = Rejected
       ELSE ret' \in MessageOutcomes(<<"manager insights", metrics.managerMetrics[i].manager>>)
  /\ UNCHANGED <<tasks, metrics, ui>>

CallGenerateProjectRecommendations ==
  /\ op = "none"
  /\ op' = "generateProjectRecommendations"
  /\ \E configured \in BOOLEAN, i \in 1..Len(calculateProjectMetrics(tasks).value) :
       IF ~configured
       THEN ret' = Rejected
       ELSE ret' \in MessageOutcomes(
                       <<"project recommendations",
                         calculateProjectMetrics(tasks).value[i].projectName>>)
  /\ UNCHANGED <<tasks, metrics, ui>>

CallIdentifyBehavioralPatterns ==
  /\ op = "none"
  /\ op' = "identifyBehavioralPatterns"
  /\ \E configured \in BOOLEAN :
       IF ~configured
       THEN ret' = Rejected /\ metrics' = metrics
       ELSE /\ metrics' = metricsAfterPatternsPrompt(metrics)
            /\ ret' \in MessageOutcomes(<<"behavioral patterns">>)
  /\ UNCHANGED <<tasks, ui>>

CallGenerateResourceInsights ==
  /\ op = "none"
  /\ op' = "generateResourceInsights"
  /\ \E configured \in BOOLEAN :
       IF ~configured
       THEN ret' = Rejected /\ metrics' = metrics
       ELSE /\ metrics' = metricsAfterResourcePrompt(metrics)
            /\ ret' \in MessageOutcomes(<<"resource insights">>)
  /\ UNCHANGED <<tasks, ui>>

NextNarrative ==
  \/ CallGenerateExecutiveSummary
  \/ CallGenerateManagerInsights
  \/ CallGenerateProjectRecommendations
  \/ CallIdentifyBehavioralPatterns
  \/ CallGenerateResourceInsights

SpecNarrative == InitNarrative /\ [][NextNarrative]_vars

NarrativeCalls ==
  { "generateExecutiveSummary", "generateManagerInsights",
    "generateProjectRecommendations", "identifyBehavioralPatterns",
    "generateResourceInsights" }

\* C23 as stated: the narrative-service functions only read the metrics they are
\* given: after any call of the five, the PortfolioMetrics passed in is as it
\* was, and its managerMetrics list is still in descending performanceScore
\* order.
C23_Original_MetricsOnlyRead ==
  op \in NarrativeCalls =>
    /\ metrics = calculatePortfolioMetrics(tasks).value
    /\ \A j, k \in 1..Len(metrics.managerMetrics) :
         j < k => metrics.managerMetrics[j].performanceScore
                    >= metrics.managerMetrics[k].performanceScore

(***************************************************************************)
(* Ingestion (dataProcessing): a parsed file is a list of rows of text     *)
(* cells, which transformTaskData turns into Tasks and validateTaskData    *)
(* judges.  An empty cell is "" here: the CSV reader yields '' and the     *)
(* Excel reader null, and every parser below maps both to the same value.  *)
(* The string functions are given as tables over the cell texts in use.    *)
(***************************************************************************)
\* String.prototype.trim.
Trim(s) ==
  CASE s = " Completed " -> "Completed"
    [] s = "  " -> ""
    [] OTHER -> s

\* value.trim().replace(/,/g, '').
Cleaned(s) ==
  CASE s = "1,200" -> "1200"
    [] OTHER -> Trim(s)

\* The texts parseFloat reads a number from; it returns NaN for the others.
NumericTexts == {"0", "4", "5", "-3", "1200"}

parseFloat(s) ==
  CASE s = "0" -> 0
    [] s = "4" -> 4
    [] s = "5" -> 5
    [] s = "-3" -> 0 - 3
    [] s = "1200" -> 1200

parseNumber(value) ==
  LET cleaned == Cleaned(value)
  IN IF cleaned \in NumericTexts THEN parseFloat(cleaned) ELSE 0

parseString(value) == Trim(value)

\* new Date(trimmed) as a day number; null for an empty or unreadable cell.
parseDate(value) ==
  LET trimmed == Trim(value)
  IN CASE trimmed = "2024-01-05" -> 5
       [] trimmed = "2024-01-09" -> 9
       [] OTHER -> NoDate

parseBoolean(value) == Trim(value) \in {"true", "yes", "1"}

\* a || b on strings.
OrElse(a, b) == IF a = "" THEN b ELSE a

transformToTask(rawData) ==
  [ projectName |-> parseString(rawData.projectName),
    typeOfProject |-> OrElse(parseString(rawData.typeOfProject), "PM"),
    taskId |-> parseString(rawData.taskId),
    taskName |-> parseString(rawData.taskName),
    functionalManager |-> parseString(rawData.functionalManager),
    plannedDuration |-> parseNumber(rawData.plannedDuration),
    actualDuration |-> parseNumber(rawData.actualDuration),
    assignedResource |-> parseString(rawData.assignedResource),
    plannedBudget |-> parseNumber(rawData.plannedBudget),
    totalSpent |-> parseNumber(rawData.totalSpent),
    status |-> OrElse(parseString(rawData.status), "Not Started"),
    plannedStart |-> parseDate(rawData.plannedStart),
    actualStart |-> parseDate(rawData.actualStart),
    plannedEnd |-> parseDate(rawData.plannedEnd),
    actualEnd |-> parseDate(rawData.actualEnd),
    resourceUtilisation |-> parseNumber(rawData.resourceUtilisation),
    projectHealthRAG |-> OrElse(parseString(rawData.projectHealthRAG), "Amber"),
    criticalPathVolatility |-> parseNumber(rawData.criticalPathVolatility),
    criticalPathRisk |-> parseBoolean(rawData.criticalPathRisk) ]

transformTaskData(rawData) == [i \in 1..Len(rawData) |-> transformToTask(rawData[i])]

\* errors.push(message) when the condition holds.
PushIf(errors, condition, message) == IF condition THEN Append(errors, message) ELSE errors

validProjectTypes == {"BL", "PC", "PM", "WPM"}

validStatuses == {"Completed", "In Progress", "Not Started"}

validRAG == {"Red", "Amber", "Green"}

\* The messages of one task, in the order of the checks; a message is the row
\* number and its text.
validateTask(task, index) ==
  LET row == index + 1
      e1 == PushIf(<<>>, task.taskId = "", <<row, "Missing taskId">>)
      e2 == PushIf(e1, task.taskName = "", <<row, "Missing taskName">>)
      e3 == PushIf(e2, task.projectName = "", <<row, "Missing projectName">>)
      e4 == PushIf(e3, task.typeOfProject \notin validProjectTypes,
                   <<row, "Invalid typeOfProject">>)
      e5 == PushIf(e4, task.status \notin validStatuses, <<row, "Invalid status">>)
      e6 == PushIf(e5, task.projectHealthRAG \notin validRAG,
                   <<row, "Invalid projectHealthRAG">>)
      e7 == PushIf(e6, task.plannedDuration < 0,
                   <<row, "Planned duration cannot be negative">>)
      e8 == PushIf(e7, task.actualDuration < 0,
                   <<row, "Actual duration cannot be negative">>)
      e9 == PushIf(e8, task.plannedBudget < 0, <<row, "Planned budget cannot be negative">>)
      e10 == PushIf(e9, task.totalSpent < 0, <<row, "Total spent cannot be negative">>)
      e11 == PushIf(e10,
                    /\ task.plannedStart # NoDate
                    /\ task.plannedEnd # NoDate
                    /\ task.plannedStart > task.plannedEnd,
                    <<row, "Planned start date is after planned end date">>)
  IN PushIf(e11,
            /\ task.actualStart # NoDate
            /\ task.actualEnd # NoDate
            /\ task.actualStart > task.actualEnd,
            <<row, "Actual start date is after actual end date">>)

\* tasks.forEach((task, index) => errors.push(...validateTask(task, index))).
RECURSIVE allTaskErrors(_, _)
allTaskErrors(ts, n) ==
  IF n = 0 THEN <<>> ELSE allTaskErrors(ts, n - 1) \o validateTask(ts[n], n - 1)

\* taskIds.filter((id, index) => taskIds.indexOf(id) !== index), as a Set.
duplicateIdsOf(ts) ==
  LET taskIds == [i \in 1..Len(ts) |-> ts[i].taskId]
      firstIndexOf(id) == CHOOSE i \in 1..Len(ts) : taskIds[i] = id /\ \A j \in 1..(i - 1) : taskIds[j] # id
  IN {taskIds[i] : i \in {k \in 1..Len(ts) : firstIndexOf(taskIds[k]) # k}}

validationWarnings(ts) ==
  LET duplicateIds == duplicateIdsOf(ts)
      tasksWithoutManager == Cardinality({i \in 1..Len(ts) : ts[i].functionalManager = ""})
      tasksWithoutResource == Cardinality({i \in 1..Len(ts) : ts[i].assignedResource = ""})
      tasksWithoutDates ==
        Cardinality({i \in 1..Len(ts) : ts[i].plannedStart = NoDate \/ ts[i].plannedEnd = NoDate})
      w1 == PushIf(<<>>, duplicateIds # {}, <<"Duplicate task IDs found", duplicateIds>>)
      w2 == PushIf(w1, tasksWithoutManager > 0,
                   <<"tasks missing functional manager", tasksWithoutManager>>)
      w3 == PushIf(w2, tasksWithoutResource > 0,
                   <<"tasks missing assigned resource", tasksWithoutResource>>)
  IN PushIf(w3, tasksWithoutDates > 0, <<"tasks missing planned dates", tasksWithoutDates>>)

validateTaskData(ts) ==
  IF Len(ts) = 0
  THEN [ valid |-> FALSE, errors |-> << <<0, "No data to validate">> >>, warnings |-> <<>>,
         recordsProcessed |-> 0, recordsValid |-> 0 ]
  ELSE LET errors == allTaskErrors(ts, Len(ts))
       IN [ valid |-> Len(errors) = 0,
            errors |-> errors,
            warnings |-> validationWarnings(ts),
            recordsProcessed |-> Len(ts),
            recordsValid |-> Len(ts) - Len(errors) ]

\* parseFile: the extension chooses the reader; another extension throws.
parseFile(f) ==
  IF f.extension \in {"csv", "xlsx", "xls"} /\ f.parses THEN Returned(f.rows) ELSE Rejected

processUploadedFile(f) ==
  LET rawData == parseFile(f)
      ts == transformTaskData(rawData.value)
  IN IF rawData.threw THEN Rejected
     ELSE Returned([ tasks |-> ts, validation |-> validateTaskData(ts) ])

(***************************************************************************)
(* processUploadedFile on files of up to MaxRows rows: rows that pass,     *)
(* rows that pass through defaults, and rows with one or several errors.   *)
(***************************************************************************)
MaxRows == 3

BaseRow ==
  [ projectName |-> "Apollo", typeOfProject |-> "PM", taskId |-> "T1",
    taskName |-> "Design", functionalManager |-> "Alice", plannedDuration |-> "5",
    actualDuration |-> "4", assignedResource |-> "Dana", plannedBudget |-> "1,200",
    totalSpent |-> "0", status |-> " Completed ", plannedStart |-> "2024-01-05",
    actualStart |-> "", plannedEnd |-> "2024-01-09", actualEnd |-> "",
    resourceUtilisation |-> "0", projectHealthRAG |-> "Green",
    criticalPathVolatility |-> "0", criticalPathRisk |-> "" ]

DefaultedRow ==
  [BaseRow EXCEPT !.taskId = "T2", !.typeOfProject = "", !.status = "  ",
     !.projectHealthRAG = "", !.plannedDuration = "abc", !.functionalManager = ""]

OneErrorRow == [BaseRow EXCEPT !.taskId = "T3", !.status = "Done"]

ManyErrorsRow ==
  [BaseRow EXCEPT !.status = "Done", !.projectHealthRAG = "Purple",
     !.plannedDuration = "-3", !.plannedStart = "2024-01-09",
     !.plannedEnd = "2024-01-05"]

RawRows == {BaseRow, DefaultedRow, OneErrorRow, ManyErrorsRow}

IngestFiles ==
  { [ extension |-> "csv", oversize |-> FALSE, parses |-> TRUE, rows |-> r ] :
      r \in TaskLists(RawRows, MaxRows) }
  \cup { [ extension |-> "xlsx", oversize |-> FALSE, parses |-> FALSE, rows |-> <<>> ],
         [ extension |-> "pdf", oversize |-> FALSE, parses |-> FALSE, rows |-> <<>> ] }

InitIngest ==
  /\ tasks = <<>>
  /\ metrics = NoMetrics
  /\ op = "none"
  /\ ret = NoReturn
  /\ calls = 0
  /\ file \in IngestFiles
  /\ uploader = NoUploader
  /\ app = NoApp
  /\ view = NoView
  /\ runs = <<>>

CallProcessUploadedFile ==
  /\ op = "none"
  /\ op' = "processUploadedFile"
  /\ ret' = processUploadedFile(file)
  /\ UNCHANGED <<tasks, metrics, ui>>

SpecIngest == InitIngest /\ [][CallProcessUploadedFile]_vars

\* The tasks of a list for which validateTask reports nothing.
ErrorFreeIdx(ts) == {i \in 1..Len(ts) : validateTask(ts[i], i - 1) = <<>>}

\* C28 as stated: for every ValidationResult produced by validateTaskData,
\* 0 <= recordsValid <= recordsProcessed and recordsValid is the number of tasks
\* that have no validation error, so the acceptance test (valid or
\* recordsValid > 0) holds only when at least one row is error-free.
C28_Original_RecordsValid ==
  op = "processUploadedFile" /\ ~ret.threw =>
    LET v == ret.value.validation
        ts == ret.value.tasks
    IN /\ 0 <= v.recordsValid
       /\ v.recordsValid <= v.recordsProcessed
       /\ v.recordsValid = Cardinality(ErrorFreeIdx(ts))
       /\ (v.valid \/ v.recordsValid > 0) => ErrorFreeIdx(ts) # {}

(***************************************************************************)
(* Uploading: App renders a FileUploader while showUploader holds or tasks *)
(* is empty.  A run of processFile goes through the promise of             *)
(* processUploadedFile, the 300 ms pause and, for an accepted file, the    *)
(* 500 ms timer that delivers the tasks.  The user may toggle the          *)
(* uploader, reset and dismiss the error between any two of these steps;   *)
(* a run whose FileUploader has been unmounted goes on, and its state      *)
(* updates are dropped.  tasks is the tasks state of App; op is the        *)
(* handler that ran last.                                                  *)
(***************************************************************************)
MaxRuns == 3

UploadFiles ==
  { [ extension |-> "pdf", oversize |-> FALSE, parses |-> FALSE, rows |-> <<>> ],
    [ extension |-> "csv", oversize |-> TRUE, parses |-> TRUE, rows |-> <<BaseRow>> ],
    [ extension |-> "xlsx", oversize |-> FALSE, parses |-> FALSE, rows |-> <<>> ],
    [ extension |-> "csv", oversize |-> FALSE, parses |-> TRUE, rows |-> <<>> ],
    [ extension |-> "csv", oversize |-> FALSE, parses |-> TRUE, rows |-> <<BaseRow>> ],
    [ extension |-> "csv", oversize |-> FALSE, parses |-> TRUE, rows |-> <<ManyErrorsRow>> ],
    [ extension |-> "csv", oversize |-> FALSE, parses |-> TRUE,
      rows |-> <<DefaultedRow, OneErrorRow>> ] }

\* What the promise of processUploadedFile settles to, for each file.
uploadResults == [f \in UploadFiles |-> processUploadedFile(f)]

\* validateFile: the error message, <<>> for null.
validateFile(f) ==
  IF f.extension \notin {"csv", "xlsx", "xls"} THEN <<"Invalid file type">>
  ELSE IF f.oversize THEN <<"File size exceeds 50MB limit">>
  ELSE <<>>

\* A variant that lets through every file whose count of valid records is not
\* negative.
acceptsNonNegative(validation) == validation.valid \/ validation.recordsValid >= 0

\* validation.valid || validation.recordsValid > 0.
acceptsValidation(validation) == validation.valid \/ validation.recordsValid > 0

\* App renders the FileUploader.
uploaderShown(ts, a) == a.showUploader \/ Len(ts) = 0

\* App renders the dashboards.
dashboardShown(ts, a) == ~uploaderShown(ts, a)

\* A run of processFile that has ended, with the callbacks it made.
EndedRun(processed, errors) ==
  [ pc |-> "done", file |-> NoFile, result |-> NoReturn, own |-> FALSE,
    processed |-> processed, errors |-> errors ]

\* The runs once the FileUploader that started them may have been unmounted.
Disown(rs, shown) == IF shown THEN rs ELSE [i \in 1..Len(rs) |-> [rs[i] EXCEPT !.own = FALSE]]

\* The FileUploader state after a run has set it, if the run's component is
\* still mounted.
SetBy(run, state) == IF run.own THEN state ELSE uploader

InitUpload ==
  /\ tasks = <<>>
  /\ metrics = NoMetrics
  /\ op = "none"
  /\ ret = NoReturn
  /\ NoUi

\* handleDrop, handleFileSelect: processFile(files[0]) up to its first await.
StartProcessFile(f) ==
  /\ uploaderShown(tasks, app)
  /\ ~uploader.isProcessing
  /\ calls < MaxRuns
  /\ calls' = calls + 1
  /\ file' = f
  /\ op' = "processFile"
  /\ IF validateFile(f) # <<>>
     THEN /\ app' = [app EXCEPT !.error = validateFile(f)]
          /\ runs' = Append(runs, EndedRun(0, 1))
          /\ UNCHANGED uploader
     ELSE /\ uploader' = [ isProcessing |-> TRUE, currentFile |-> f,
                           progress |-> "Parsing data..." ]
          /\ runs' = Append(runs, [ pc |-> "parsing", file |-> f, result |-> NoReturn,
                                    own |-> TRUE, processed |-> 0, errors |-> 0 ])
          /\ UNCHANGED app
  /\ UNCHANGED <<tasks, metrics, ret, view>>

\* The promise of processUploadedFile settles: on to the pause, or the catch.
ParseSettles(i) ==
  /\ i \in 1..Len(runs)
  /\ runs[i].pc = "parsing"
  /\ op' = "processUploadedFile"
  /\ LET result == uploadResults[runs[i].file]
     IN IF result.threw
        THEN /\ app' = [app EXCEPT !.error = <<"File processing failed">>]
             /\ uploader' = SetBy(runs[i], NoUploader)
             /\ runs' = [runs EXCEPT ![i] = EndedRun(0, 1)]
        ELSE /\ uploader' = SetBy(runs[i], [uploader EXCEPT !.progress = "Validating data..."])
             /\ runs' = [runs EXCEPT ![i].pc = "delay", ![i].result = result]
             /\ UNCHANGED app
  /\ UNCHANGED <<tasks, metrics, ret, calls, file, view>>

\* The 300 ms pause ends: the acceptance test.
DelayElapses(i) ==
  /\ i \in 1..Len(runs)
  /\ runs[i].pc = "delay"
  /\ op' = "acceptanceTest"
  /\ LET validation == runs[i].result.value.validation
     IN IF acceptsValidation(validation)
        THEN /\ uploader' = SetBy(runs[i], [uploader EXCEPT !.progress = "Processing complete!"])
             /\ runs' = [runs EXCEPT ![i].pc = "timer"]
             /\ UNCHANGED app
        ELSE /\ app' = [app EXCEPT !.error = <<"Validation failed", validation.errors>>]
             /\ uploader' = SetBy(runs[i], NoUploader)
             /\ runs' = [runs EXCEPT ![i] = EndedRun(0, 1)]
  /\ UNCHANGED <<tasks, metrics, ret, calls, file, view>>

\* The 500 ms timer fires: onFileProcessed, which is App.handleFileProcessed,
\* then setIsProcessing(false) and setProgress('').
TimerFires(i) ==
  /\ i \in 1..Len(runs)
  /\ runs[i].pc = "timer"
  /\ op' = "onFileProcessed"
  /\ tasks' = runs[i].result.value.tasks
  /\ app' = [ validation |-> runs[i].result.value.validation,
              showUploader |-> FALSE, error |-> <<>> ]
  /\ uploader' = IF uploaderShown(tasks', app')
                 THEN SetBy(runs[i], [uploader EXCEPT !.isProcessing = FALSE, !.progress = ""])
                 ELSE NoUploader
  /\ runs' = Disown([runs EXCEPT ![i] = EndedRun(1, 0)], uploaderShown(tasks', app'))
  /\ UNCHANGED <<metrics, ret, calls, file, view>>

\* The header button Upload New File: setShowUploader(!showUploader).
ToggleUploader ==
  /\ Len(tasks) > 0
  /\ op' = "toggleUploader"
  /\ app' = [app EXCEPT !.showUploader = ~app.showUploader]
  /\ uploader' = IF uploaderShown(tasks, app') /\ uploaderShown(tasks, app)
                 THEN uploader ELSE NoUploader
  /\ runs' = Disown(runs, uploaderShown(tasks, app'))
  /\ UNCHANGED <<tasks, metrics, ret, calls, file, view>>

\* The header button Reset.
HandleReset ==
  /\ Len(tasks) > 0
  /\ op' = "handleReset"
  /\ tasks' = <<>>
  /\ app' = NoApp
  /\ UNCHANGED <<metrics, ret, calls, file, uploader, view, runs>>

\* The close button of the error alert: setError(null).
DismissError ==
  /\ app.error # <<>>
  /\ op' = "dismissError"
  /\ app' = [app EXCEPT !.error = <<>>]
  /\ UNCHANGED <<tasks, metrics, ret, calls, file, uploader, view, runs>>

NextUpload ==
  \/ \E f \in UploadFiles : StartProcessFile(f)
  \/ \E i \in 1..MaxRuns : ParseSettles(i)
  \/ \E i \in 1..MaxRuns : DelayElapses(i)
  \/ \E i \in 1..MaxRuns : TimerFires(i)
  \/ ToggleUploader
  \/ HandleReset
  \/ DismissError

SpecUpload == InitUpload /\ [][NextUpload]_vars

\* A step of a run that is in flight.
RunStep == \E i \in 1..MaxRuns : ParseSettles(i) \/ DelayElapses(i) \/ TimerFires(i)

\* Promises settle and timers fire: the event loop runs a continuation that is
\* ready.  The runs are finitely many and each has at most three steps, so this
\* brings every run to its end.
FairSpecUpload == SpecUpload /\ WF_vars(RunStep)

\* C24 as stated: every Task the ingestion pipeline delivers through
\* onFileProcessed is within the declared domain: status is Completed, In
\* Progress or Not Started, projectHealthRAG is Red, Amber or Green, and
\* durations and budgets are not negative.
C24_Original_DeliveredInDomain ==
  op = "onFileProcessed" =>
    \A i \in 1..Len(tasks) :
      /\ tasks[i].status \in {"Completed", "In Progress", "Not Started"}
      /\ tasks[i].projectHealthRAG \in {"Red", "Amber", "Green"}
      /\ tasks[i].plannedDuration >= 0
      /\ tasks[i].actualDuration >= 0
      /\ tasks[i].plannedBudget >= 0
      /\ tasks[i].totalSpent >= 0

\* C29: every run of processFile ends with exactly one callback,
\* onFileProcessed or onError and never both, and makes none before it ends;
\* again and again isProcessing is false and every run started has ended; after
\* onFileProcessed, which is only called with a non-empty task list, App has
\* tasks non-empty, showUploader false and no error; the dashboard is shown
\* only while tasks is non-empty.
C29_UploadRuns ==
  /\ [](\A i \in 1..Len(runs) :
          runs[i].processed + runs[i].errors = IF runs[i].pc = "done" THEN 1 ELSE 0)
  /\ [](op = "onFileProcessed" =>
          Len(tasks) > 0 /\ ~app.showUploader /\ app.error = <<>>)
  /\ [](dashboardShown(tasks, app) => Len(tasks) > 0)
  /\ []<>(~uploader.isProcessing /\ \A i \in 1..Len(runs) : runs[i].pc = "done")

\* One run has delivered its tasks and the next has reported an error, while
\* the dashboard of the delivered tasks was brought back.
C29_Witness ==
  /\ Len(runs) >= 2
  /\ runs[1].pc = "done" /\ runs[1].processed = 1
  /\ runs[2].pc = "done" /\ runs[2].errors = 1
  /\ Len(tasks) > 0
  /\ app.error # <<>>
  /\ dashboardShown(tasks, app)

(***************************************************************************)
(* detectBehaviouralPatterns on the tasks of a named manager and of no     *)
(* manager, steady or volatile on the critical path, with the manager      *)
(* metrics calculateManagerMetrics returns for them.                       *)
(***************************************************************************)
MaxAffectedTasks == 3

AffectedTasks ==
  { [BaseTask EXCEPT !.functionalManager = m, !.criticalPathVolatility = v] :
      m \in {"", "Alice"}, v \in {0, 6} }

InitAffected ==
  /\ tasks \in TaskLists(AffectedTasks, MaxAffectedTasks)
  /\ metrics = NoMetrics
  /\ op = "none"
  /\ ret = NoReturn
  /\ NoUi

SpecAffected == InitAffected /\ [][CallDetectBehaviouralPatterns]_vars

\* C26 as stated: for patterns = detectBehaviouralPatterns(tasks,
\* calculateManagerMetrics(tasks)), every name in every pattern's
\* affectedManagers is the manager field of some entry of the manager-metrics
\* list, and no name appears twice within one pattern, the
\* critical_path_instability pattern of volatile tasks with an empty
\* functionalManager included.
C26_Original_AffectedManagersKnown ==
  op = "detectBehaviouralPatterns" /\ ~ret.threw =>
    LET managerMetrics == calculateManagerMetrics(tasks).value
        managers == {managerMetrics[k].manager : k \in 1..Len(managerMetrics)}
    IN \A p \in 1..Len(ret.value) :
         LET affected == ret.value[p].affectedManagers
         IN /\ \A i \in 1..Len(affected) : affected[i] \in managers
            /\ \A i, j \in 1..Len(affected) : i # j => affected[i] # affected[j]

(***************************************************************************)
(* calculatePortfolioMetrics on tasks whose project name is empty, is the  *)
(* text "Unnamed Project" or is another name.                              *)
(***************************************************************************)
MaxNamedTasks == 3

NamedTasks ==
  { [BaseTask EXCEPT !.projectName = n, !.projectHealthRAG = r] :
      n \in {"", "Unnamed Project", "Apollo"}, r \in {"Red", "Green"} }

InitNamed ==
  /\ tasks \in TaskLists(NamedTasks, MaxNamedTasks)
  /\ metrics = NoMetrics
  /\ op = "none"
  /\ ret = NoReturn
  /\ NoUi

SpecNamed == InitNamed /\ [][CallCalculatePortfolioMetrics]_vars

\* C27 as stated: for every task list, calculatePortfolioMetrics(tasks)
\* .totalProjects equals the number of entries calculateProjectMetrics(tasks)
\* returns, and ragDistribution.Red + Amber + Green equals totalTasks, also
\* when some tasks have an empty projectName and others are named "Unnamed
\* Project".
C27_Original_ProjectCount ==
  op = "calculatePortfolioMetrics" /\ ~ret.threw =>
    /\ ret.value.totalProjects = Len(calculateProjectMetrics(tasks).value)
    /\ ret.value.ragDistribution.Red + ret.value.ragDistribution.Amber
         + ret.value.ragDistribution.Green = ret.value.totalTasks

(***************************************************************************)
(* ProjectManagerView: the project selector and the AI recommendations of  *)
(* the selected project.  tasks is the tasks prop; a run is a call of      *)
(* loadProjectInsights waiting for generateProjectRecommendations, with    *)
(* the project it was made for.  A project name is kept as <<name>>.       *)
(***************************************************************************)
MaxViewTasks == 2

MaxRequests == 2

ViewTasks == { [BaseTask EXCEPT !.projectName = n] : n \in {"Apollo", "Gemini"} }

\* The options of the selector: projectMetrics.map(project => project.projectName).
projectOptions(ts) ==
  LET projectMetrics == calculateProjectMetrics(ts).value
  IN [i \in 1..Len(projectMetrics) |-> <<projectMetrics[i].projectName>>]

\* The text generateProjectRecommendations resolves to for a project.
recommendationsFor(project) == <<"project recommendations", project>>

InitView ==
  /\ tasks \in TaskLists(ViewTasks, MaxViewTasks) \ {<<>>}
  /\ metrics = NoMetrics
  /\ op = "none"
  /\ ret = NoReturn
  /\ calls = 0
  /\ file = NoFile
  /\ uploader = NoUploader
  /\ app = [NoApp EXCEPT !.showUploader = FALSE]
  /\ view \in { [NoView EXCEPT !.selectedProject = projectOptions(tasks)[1],
                               !.configured = c] : c \in BOOLEAN }
  /\ runs = <<>>

\* onChange of the selector: setSelectedProject, then the effect on
\* [selectedProject] clears the recommendations and the error.
SelectProject(project) ==
  /\ \E i \in 1..Len(projectOptions(tasks)) : projectOptions(tasks)[i] = project
  /\ project # view.selectedProject
  /\ op' = "setSelectedProject"
  /\ view' = [view EXCEPT !.selectedProject = project,
                          !.projectRecommendations = <<>>,
                          !.insightsError = <<>>]
  /\ UNCHANGED <<tasks, metrics, ret, calls, file, uploader, app, runs>>

\* The buttons Get Recommendations and Refresh, rendered while no request of
\* the view is loading: loadProjectInsights up to its await.
LoadProjectInsights ==
  /\ ~view.isLoadingInsights
  /\ calls < MaxRequests
  /\ calls' = calls + 1
  /\ op' = "loadProjectInsights"
  /\ IF ~view.configured
     THEN /\ view' = [view EXCEPT !.insightsError = <<"Claude API key not configured">>]
          /\ UNCHANGED runs
     ELSE /\ view' = [view EXCEPT !.isLoadingInsights = TRUE, !.insightsError = <<>>]
          /\ runs' = Append(runs, [ pc |-> "pending", project |-> view.selectedProject ])
  /\ UNCHANGED <<tasks, metrics, ret, file, uploader, app>>

\* The promise resolves: setProjectRecommendations, then finally.
RequestResolves(i) ==
  /\ i \in 1..Len(runs)
  /\ runs[i].pc = "pending"
  /\ op' = "setProjectRecommendations"
  /\ view' = [view EXCEPT !.projectRecommendations = recommendationsFor(runs[i].project),
                          !.isLoadingInsights = FALSE]
  /\ runs' = [runs EXCEPT ![i].pc = "done"]
  /\ UNCHANGED <<tasks, metrics, ret, calls, file, uploader, app>>

\* The promise is rejected: catch, then finally.
RequestRejects(i) ==
  /\ i \in 1..Len(runs)
  /\ runs[i].pc = "pending"
  /\ op' = "setInsightsError"
  /\ view' = [view EXCEPT !.insightsError = <<"Error">>, !.isLoadingInsights = FALSE]
  /\ runs' = [runs EXCEPT ![i].pc = "done"]
  /\ UNCHANGED <<tasks, metrics, ret, calls, file, uploader, app>>

NextView ==
  \/ \E project \in { <<"Apollo">>, <<"Gemini">> } : SelectProject(project)
  \/ LoadProjectInsights
  \/ \E i \in 1..MaxRequests : RequestResolves(i)
  \/ \E i \in 1..MaxRequests : RequestRejects(i)

SpecView == InitView /\ [][NextView]_vars

\* C30 as stated: the recommendations text shown is always either empty or the
\* response to a request made for the currently selected project: under any
\* interleaving of loadProjectInsights requests, their completions and
\* project-selection changes, a response to a request issued for a previously
\* selected project is never stored as projectRecommendations for the new
\* selection.
C30_Original_RecommendationsCurrent ==
  view.projectRecommendations \in {<<>>, recommendationsFor(view.selectedProject)}

(***************************************************************************)
(* Every input family of the engine under every call of the engine.  The   *)
(* families of long lists (InitScenario, InitHealth, InitInstability),     *)
(* repeated calls, ingestion, the narrative service and the components are *)
(* explored by their own specifications only.                              *)
(***************************************************************************)
Init ==
  \/ InitForecast
  \/ InitCritical
  \/ InitManager
  \/ InitScore
  \/ InitMonotone
  \/ InitProject
  \/ InitPatterns
  \/ InitPredict
  \/ InitRisks
  \/ InitOptimism
  \/ InitInsights
  \/ InitPortfolio
  \/ InitTotality

Next ==
  \/ CallCalculateForecastAccuracy
  \/ CallCalculateDurationVariance
  \/ CallCalculateGenericResourcePercentage
  \/ CallCalculateCriticalPathHealth
  \/ CallCalculateResourceUtilisation
  \/ CallCalculateManagerMetrics
  \/ CallCalculateProjectMetrics
  \/ CallCalculatePortfolioMetrics
  \/ CallDetectBehaviouralPatterns
  \/ CallGenerateInsights
  \/ CallPredictRAGStatus

Spec == Init /\ [][Next]_vars

====
